---------------------------- MODULE Spec2Model ----------------------------
(***************************************************************************)
(* Job orchestration and deduplication layer of the "Sounds Good Enough"   *)
(* backend (app/api/routes.py, app/main.py, app/services/video_source.py). *)
(*                                                                         *)
(* The backend is one asyncio event loop: a coroutine runs without         *)
(* interruption from one suspending `await` to the next, so every action   *)
(* below is the code between two suspension points of one handler or task. *)
(***************************************************************************)
EXTENDS Integers, FiniteSets, Sequences, TLC

VARIABLES
    jobs,             \* app.state.jobs: job_id -> StoredJob (Artifact Store)
    disk,             \* file system: job_id -> [dir, files] of its directory
    cache,            \* app.state.cache: file_hash -> (job_id, response)
    processing_jobs,  \* app.state.processing_jobs: job_id -> ProcessingJob
    source_to_job,    \* app.state.source_to_job: source_key -> job_id
    source_cache,     \* app.state.source_cache: source_key -> DownloadedAudio
    settings,         \* app.state.settings
    up,               \* the application is between start-up and shutdown
    now,              \* time.time()
    nextId,           \* the next value uuid4() hands out
    inl,              \* the POST /api/process requests, by arrival order
    bg                \* the asyncio tasks of _run_background_url_job, by job_id

vars == <<jobs, disk, cache, processing_jobs, source_to_job, source_cache,
          settings, up, now, nextId, inl, bg>>

---------------------------------------------------------------------------
(* Bounds of the model *)

MaxIds == 3     \* identifiers uuid4() can hand out
MaxTime == 2    \* the clock stops there
MaxReq == 2     \* POST /api/process requests in one run

(* Settings.job_ttl_seconds: the clock counts in units of the time-to-live
   (1800 s), so the time-to-live is one unit. *)
job_ttl_seconds == 1

Ids == 1..MaxIds
Reqs == 1..MaxReq
Times == 0..MaxTime
Datas == {"d1", "d2"}       \* contents within settings.upload_max_mb
BigData == "d_big"          \* a content above settings.upload_max_mb
Lyrics == {"la"}

---------------------------------------------------------------------------
(* Values *)

NoJob == -1
NoKey == ""
NoData == ""
NoError == ""
NoLyrics == ""
NoResult == [job_id |-> NoJob, lyrics |-> NoLyrics]

DEMO_JOB_ID == 0
UnknownId == MaxIds + 1    \* an identifier uuid4() never returned

ALLOWED_EXTENSIONS == {".mp3", ".wav"}
ALLOWED_MIME_PREFIX == "audio/"
RUNNING_STATUSES == {"queued", "processing"}
OutputNames == {"vocals.wav", "instrumental.wav"}

NoDir == [dir |-> FALSE, files |-> {}]

(* dict helpers *)
Put(d, k, v) == [x \in DOMAIN d \cup {k} |-> IF x = k THEN v ELSE d[x]]
Pop(d, k) == [x \in DOMAIN d \ {k} |-> d[x]]
EmptyDict == << >>

(* hashlib.sha256(data).hexdigest() *)
sha256(data) == "sha:" \o data

(* ProcessResponse: the artifact URLs are functions of job_id *)
ProcessResponse(job_id, lyrics) == [job_id |-> job_id, lyrics |-> lyrics]
vocals_url(response) == <<"/api/files", response.job_id, "vocals.wav">>
instrumental_url(response) == <<"/api/files", response.job_id, "instrumental.wav">>

(* a job record that is created as already processing *)
ProcessingJob_processing(source_key) ==
    [status |-> "processing", source_key |-> source_key, error |-> NoError,
     result |-> NoResult, hist |-> <<"processing">>]

(* ProcessingJob(status="queued", created_at, source_key) *)
ProcessingJob(source_key) ==
    [status |-> "queued", source_key |-> source_key, error |-> NoError,
     result |-> NoResult,
     hist |-> <<"queued">>]    \* every value assigned to status, in order

(* StoredJob(path, created_at); path is the directory disk[job_id] *)
StoredJob(created_at) ==
    [created_at |-> created_at,
     born |-> created_at]    \* the time the entry was stored, never reassigned

---------------------------------------------------------------------------
(* External references *)

Url(scheme, host, path, v, raw) ==
    [scheme |-> scheme, host |-> host, path |-> path, v |-> v, raw |-> raw]

Urls ==
    { Url("https", "youtu.be", <<"a">>, "", "https://youtu.be/a"),
      Url("https", "www.youtube.com", <<"watch">>, "a", "https://www.youtube.com/watch?v=a"),
      Url("https", "example.com", <<"x">>, "", "https://example.com/x"),
      Url("ftp", "example.com", <<"x">>, "", "ftp://example.com/x") }

YoutubeComHosts == {"youtube.com", "www.youtube.com", "m.youtube.com", "music.youtube.com"}

(* a normalization that knows the short and the watch links only *)
normalize_youtube_source_no_paths(url) ==
    LET video_id ==
            IF url.host \in {"youtu.be", "www.youtu.be"}
            THEN (IF Len(url.path) > 0 THEN url.path[1] ELSE "")
            ELSE IF url.host \in YoutubeComHosts
            THEN (IF url.path = <<"watch">> THEN url.v ELSE "")
            ELSE ""
    IN  IF video_id # "" THEN "youtube:" \o video_id ELSE "url:" \o url.raw

normalize_youtube_source(url) ==
    LET video_id ==
            IF url.host \in {"youtu.be", "www.youtu.be"}
            THEN (IF Len(url.path) > 0 THEN url.path[1] ELSE "")
            ELSE IF url.host \in YoutubeComHosts
            THEN (IF url.path = <<"watch">> THEN url.v
                  ELSE IF Len(url.path) > 1 /\ url.path[1] \in {"shorts", "embed"}
                  THEN url.path[2]
                  ELSE "")
            ELSE ""
    IN  IF video_id # "" THEN "youtube:" \o video_id ELSE "url:" \o url.raw

Keys == {normalize_youtube_source(u) : u \in Urls}

---------------------------------------------------------------------------
(* Result Cache and Artifact Store *)

(* a rule that also counts the demo entry once it is old *)
expired_with_demo(t) ==
    {job_id \in DOMAIN jobs : t - jobs[job_id].created_at > job_ttl_seconds}

(* a rule that counts a job as expired once its age reaches the time-to-live *)
expired_at_ttl(t) ==
    {job_id \in DOMAIN jobs :
        t - jobs[job_id].created_at >= job_ttl_seconds /\ job_id # DEMO_JOB_ID}

(* now - job.created_at > settings.job_ttl_seconds and job_id != demo_job_id *)
expired(t) ==
    {job_id \in DOMAIN jobs :
        t - jobs[job_id].created_at > job_ttl_seconds /\ job_id # DEMO_JOB_ID}

(* a removal that also clears every directory no stored job owns *)
rmtree_with_unstored(gone, kept) ==
    [j \in DOMAIN disk |->
        IF /\ disk[j].dir /\ j \notin kept
           /\ (j \in gone \/ j \notin DOMAIN jobs)
        THEN NoDir ELSE disk[j]]

(* shutil.rmtree(path, ignore_errors=True) of every job of `gone` whose path
   exists; the removal fails, and is ignored, for the jobs of `kept`. *)
rmtree(gone, kept) ==
    [j \in DOMAIN disk |->
        IF j \in gone /\ disk[j].dir /\ j \notin kept THEN NoDir ELSE disk[j]]

(* a lookup that trusts an entry whose job is stored, without looking at its files *)
_get_cached_response_files_unchecked(file_hash) ==
    IF file_hash \notin DOMAIN cache
    THEN [hit |-> FALSE, response |-> NoResult, cache |-> cache, jobs |-> jobs]
    ELSE IF cache[file_hash].job_id \notin DOMAIN jobs
    THEN [hit |-> FALSE, response |-> NoResult, cache |-> Pop(cache, file_hash), jobs |-> jobs]
    ELSE [hit |-> TRUE, response |-> cache[file_hash].response, cache |-> cache,
          jobs |-> [jobs EXCEPT ![cache[file_hash].job_id].created_at = now]]

(* a lookup that reports a stale entry as a miss and leaves it in the cache *)
_get_cached_response_entry_kept(file_hash) ==
    LET look == _get_cached_response_files_unchecked(file_hash) IN
    IF look.hit /\ OutputNames \subseteq disk[cache[file_hash].job_id].files
    THEN look
    ELSE [hit |-> FALSE, response |-> NoResult, cache |-> cache, jobs |-> jobs]

(* a lookup that serves a valid entry and leaves created_at as it was *)
_get_cached_response_no_refresh(file_hash) ==
    LET look == _get_cached_response_files_unchecked(file_hash) IN
    IF look.hit /\ OutputNames \subseteq disk[cache[file_hash].job_id].files
    THEN [look EXCEPT !.jobs = jobs]
    ELSE [hit |-> FALSE, response |-> NoResult,
          cache |-> IF file_hash \in DOMAIN cache THEN Pop(cache, file_hash) ELSE cache,
          jobs |-> jobs]

(* a lookup that never finds anything *)
_get_cached_response_always_miss(file_hash) ==
    [hit |-> FALSE, response |-> NoResult, cache |-> cache, jobs |-> jobs]

(* _get_cached_response: the value returned and the dictionaries it leaves *)
_get_cached_response(file_hash) ==
    IF file_hash \notin DOMAIN cache
    THEN [hit |-> FALSE, response |-> NoResult, cache |-> cache, jobs |-> jobs]
    ELSE LET cached_job_id == cache[file_hash].job_id
             cached_response == cache[file_hash].response
         IN  IF cached_job_id \notin DOMAIN jobs
             THEN [hit |-> FALSE, response |-> NoResult,
                   cache |-> Pop(cache, file_hash), jobs |-> jobs]
             ELSE IF ~(OutputNames \subseteq disk[cached_job_id].files)
             THEN [hit |-> FALSE, response |-> NoResult,
                   cache |-> Pop(cache, file_hash), jobs |-> jobs]
             ELSE [hit |-> TRUE, response |-> cached_response, cache |-> cache,
                   jobs |-> [jobs EXCEPT ![cached_job_id].created_at = now]]

(* a run that returns its response and forgets to cache it *)
publish_nothing(file_hash, response) == cache

(* routes.py:177: request.app.state.cache[file_hash] = (response.job_id, response) *)
publish(file_hash, response) ==
    Put(cache, file_hash, [job_id |-> response.job_id, response |-> response])

(* _job_payload: ProcessJobResponse(job_id, status, error, result) *)
_job_payload(job_id, job) ==
    [job_id |-> job_id, status |-> job.status, error |-> job.error, result |-> job.result]

---------------------------------------------------------------------------
(* HTTP responses of the handlers that answer in one step *)

NoHttp ==
    [op |-> "none", code |-> 0, key |-> NoKey, job_id |-> NoJob, status |-> "",
     error |-> NoError, result |-> NoResult, file |-> ""]

HttpError(op, code) == [NoHttp EXCEPT !.op = op, !.code = code]

HttpJob(op, key, payload) ==
    [op |-> op, code |-> IF op = "url" THEN 202 ELSE 200, key |-> key,
     job_id |-> payload.job_id, status |-> payload.status, error |-> payload.error,
     result |-> payload.result, file |-> ""]

---------------------------------------------------------------------------
(* Initial state: lifespan() creates jobs and cache and loads the demo entry.
   routes.py reads processing_jobs, source_to_job and source_cache from
   app.state as dictionaries that exist; tests/test_api.py:126-236 run the URL
   path right after start-up, so they start empty. *)

IdleReq == [pc |-> "idle", data |-> NoData, big |-> FALSE, work |-> NoJob,
            code |-> 0, ret |-> NoResult]

DemoResponse == ProcessResponse(DEMO_JOB_ID, "demo")

(* _load_demo_data: nothing when demo_data/response.json is absent; else the
   demo job, and a cache entry for the hash of the demo input. *)
DemoSeeds ==
    { [jobs |-> EmptyDict, files |-> {}, cache |-> EmptyDict] }
    \cup
    { [jobs |-> Put(EmptyDict, DEMO_JOB_ID, StoredJob(0)),
       files |-> f,
       cache |-> Put(EmptyDict, sha256("d1"),
                     [job_id |-> DEMO_JOB_ID, response |-> DemoResponse])]
      : f \in {OutputNames, {"vocals.wav"}} }

Init ==
    /\ \E seed \in DemoSeeds :
        /\ jobs = seed.jobs
        /\ cache = seed.cache
        /\ disk = [j \in Ids \cup {DEMO_JOB_ID} |->
                     IF j = DEMO_JOB_ID /\ DEMO_JOB_ID \in DOMAIN seed.jobs
                     THEN [dir |-> TRUE, files |-> seed.files] ELSE NoDir]
    /\ processing_jobs = EmptyDict
    /\ source_to_job = EmptyDict
    /\ source_cache = EmptyDict
    /\ settings \in {[gradium_api_key |-> k] : k \in {"gd_key", ""}}
    /\ up = TRUE
    /\ now = 0
    /\ nextId = 1
    /\ inl = [r \in Reqs |-> IdleReq]
    /\ bg = EmptyDict

---------------------------------------------------------------------------
(* uuid4() is drawn from a finite pool: a request is admitted only when the
   pool still covers every identifier the admitted work can ask for. *)

Pending ==
    Cardinality({r \in Reqs : inl[r].pc = "read"})
    + Cardinality({j \in DOMAIN bg : bg[j].pc \in {"created", "download"}})

Room(n) == nextId + Pending + n <= MaxIds + 1

---------------------------------------------------------------------------
(* POST /api/process: process_audio *)

(* a validation that does not look at the content type *)
_validate_upload_any_content_type(file) ==
    IF file.extension \notin ALLOWED_EXTENSIONS THEN 400
    ELSE IF file.size_known /\ file.big THEN 400
    ELSE 0

(* _validate_upload: the status code it raises, 0 when it accepts *)
_validate_upload(file) ==
    IF file.extension \notin ALLOWED_EXTENSIONS THEN 400
    ELSE IF file.content_type # ALLOWED_MIME_PREFIX THEN 400
    ELSE IF file.size_known /\ file.big THEN 400
    ELSE 0

Upload(extension, content_type, size_known, big, data) ==
    [extension |-> extension, content_type |-> content_type,
     size_known |-> size_known, big |-> big, data |-> data]

Uploads ==
    { Upload(".wav", "audio/", TRUE, FALSE, d) : d \in Datas }
    \cup { Upload(".wav", "audio/", known, TRUE, BigData) : known \in BOOLEAN }
    \cup { Upload(".txt", "text/", TRUE, FALSE, "d1"),
           Upload(".mp3", "text/", TRUE, FALSE, "d1") }

(* a request-path cleanup that removes a job as soon as its age reaches the
   time-to-live *)
_cleanup_expired_jobs_at_ttl(kept) ==
    /\ jobs' = [j \in DOMAIN jobs \ expired_at_ttl(now) |-> jobs[j]]
    /\ disk' = rmtree(expired_at_ttl(now), kept)

(* _cleanup_expired_jobs *)
_cleanup_expired_jobs(kept) ==
    /\ jobs' = [j \in DOMAIN jobs \ expired(now) |-> jobs[j]]
    /\ disk' = rmtree(expired(now), kept)

(* process_audio up to `await file.read()` *)
InlineStart(r, file, kept) ==
    /\ up
    /\ inl[r].pc = "idle"
    /\ (IF r = 1 THEN TRUE ELSE inl[r - 1].pc # "idle")
    /\ IF _validate_upload(file) # 0
       THEN UNCHANGED <<jobs, disk, inl>>
       ELSE /\ Room(1)
            /\ _cleanup_expired_jobs(kept)
            /\ inl' = [inl EXCEPT ![r] = [IdleReq EXCEPT !.pc = "read",
                                             !.data = file.data, !.big = file.big]]
    /\ UNCHANGED <<cache, processing_jobs, source_to_job, source_cache, settings, up,
                   now, nextId, bg>>

(* _create_job_response up to the first suspension inside separate(): the
   working directory job_dir of a fresh job_id holds the input. *)
mkdtemp(job_id) == [disk EXCEPT ![job_id] = [dir |-> TRUE, files |-> {}]]

(* routes.py:127-131: the input as job_dir / filename; an upload is written
   under its own name ("input.wav" stands for it), a download is copied. *)
write_input(d, job_id, filename) == [d EXCEPT ![job_id].files = @ \cup {filename}]

(* a handler that starts a run without looking in the cache *)
InlineRead_no_lookup(r) ==
    /\ up
    /\ inl[r].pc = "read"
    /\ IF inl[r].big
       THEN /\ inl' = [inl EXCEPT ![r].pc = "err", ![r].code = 400]
            /\ UNCHANGED <<disk, nextId>>
       ELSE IF settings.gradium_api_key = ""
       THEN /\ inl' = [inl EXCEPT ![r].pc = "err", ![r].code = 500]
            /\ UNCHANGED <<disk, nextId>>
       ELSE /\ disk' = write_input(mkdtemp(nextId), nextId, "input.wav")
            /\ nextId' = nextId + 1
            /\ inl' = [inl EXCEPT ![r].pc = "separate", ![r].work = nextId]
    /\ UNCHANGED <<jobs, cache, processing_jobs, source_to_job, source_cache, settings,
                   up, now, bg>>

(* process_audio from the end of file.read() to the suspension in separate(),
   or to the response: size check, sha256, _process_with_hash. *)
InlineRead(r) ==
    /\ up
    /\ inl[r].pc = "read"
    /\ LET look == _get_cached_response(sha256(inl[r].data)) IN
       IF inl[r].big
       THEN /\ inl' = [inl EXCEPT ![r].pc = "err", ![r].code = 400]
            /\ UNCHANGED <<jobs, cache, disk, nextId>>
       ELSE /\ jobs' = look.jobs
            /\ cache' = look.cache
            /\ IF look.hit
               THEN /\ inl' = [inl EXCEPT ![r].pc = "ok", ![r].code = 200,
                                          ![r].ret = look.response]
                    /\ UNCHANGED <<disk, nextId>>
               ELSE IF settings.gradium_api_key = ""
               THEN /\ inl' = [inl EXCEPT ![r].pc = "err", ![r].code = 500]
                    /\ UNCHANGED <<disk, nextId>>
               ELSE /\ disk' = write_input(mkdtemp(nextId), nextId, "input.wav")
                    /\ nextId' = nextId + 1
                    /\ inl' = [inl EXCEPT ![r].pc = "separate", ![r].work = nextId]
    /\ UNCHANGED <<processing_jobs, source_to_job, source_cache, settings, up, now, bg>>

(* a handler that goes on to transcription whatever separation did *)
InlineSeparated_goes_on(r, ok) ==
    /\ up
    /\ inl[r].pc = "separate"
    /\ disk' = IF ok THEN [disk EXCEPT ![inl[r].work].files = @ \cup OutputNames] ELSE disk
    /\ inl' = [inl EXCEPT ![r].pc = "transcribe"]
    /\ UNCHANGED <<jobs, cache, processing_jobs, source_to_job, source_cache,
                   settings, up, now, nextId, bg>>

(* a separation that returns after writing the vocals only *)
InlineSeparated_vocals_only(r, ok) ==
    /\ up
    /\ inl[r].pc = "separate"
    /\ IF ok
       THEN /\ disk' = [disk EXCEPT ![inl[r].work].files = @ \cup {"vocals.wav"}]
            /\ inl' = [inl EXCEPT ![r].pc = "transcribe"]
       ELSE /\ inl' = [inl EXCEPT ![r].pc = "err", ![r].code = 500]
            /\ UNCHANGED disk
    /\ UNCHANGED <<jobs, cache, processing_jobs, source_to_job, source_cache,
                   settings, up, now, nextId, bg>>

(* separate() returns or raises SeparationError; on return transcribe() starts
   and suspends in client.stt. *)
InlineSeparated(r, ok) ==
    /\ up
    /\ inl[r].pc = "separate"
    /\ IF ok
       THEN /\ disk' = [disk EXCEPT ![inl[r].work].files = @ \cup OutputNames]
            /\ inl' = [inl EXCEPT ![r].pc = "transcribe"]
       ELSE /\ inl' = [inl EXCEPT ![r].pc = "err", ![r].code = 500]
            /\ UNCHANGED disk
    /\ UNCHANGED <<jobs, cache, processing_jobs, source_to_job, source_cache,
                   settings, up, now, nextId, bg>>

(* a run that caches its response without storing its job *)
InlineTranscribed_not_stored(r, ok, lyrics) ==
    /\ up
    /\ inl[r].pc = "transcribe"
    /\ IF ok
       THEN LET response == ProcessResponse(inl[r].work, lyrics) IN
            /\ cache' = publish(sha256(inl[r].data), response)
            /\ inl' = [inl EXCEPT ![r].pc = "ok", ![r].code = 200, ![r].ret = response]
       ELSE /\ inl' = [inl EXCEPT ![r].pc = "err", ![r].code = 500]
            /\ UNCHANGED cache
    /\ UNCHANGED <<jobs, disk, processing_jobs, source_to_job, source_cache, settings,
                   up, now, nextId, bg>>

(* transcribe() returns or raises TranscriptionError; on return the job is
   stored (routes.py:155), the response cached (routes.py:177) and returned. *)
InlineTranscribed(r, ok, lyrics) ==
    /\ up
    /\ inl[r].pc = "transcribe"
    /\ IF ok
       THEN LET response == ProcessResponse(inl[r].work, lyrics) IN
            /\ jobs' = Put(jobs, inl[r].work, StoredJob(now))
            /\ cache' = publish(sha256(inl[r].data), response)
            /\ inl' = [inl EXCEPT ![r].pc = "ok", ![r].code = 200, ![r].ret = response]
       ELSE /\ inl' = [inl EXCEPT ![r].pc = "err", ![r].code = 500]
            /\ UNCHANGED <<jobs, cache>>
    /\ UNCHANGED <<disk, processing_jobs, source_to_job, source_cache, settings, up,
                   now, nextId, bg>>

---------------------------------------------------------------------------
(* POST /api/process/url: process_from_url, and its background task *)

(* try_join that takes the newest job recorded for the key, whatever its status *)
try_join_any_status(source_key) ==
    LET known == {j \in DOMAIN processing_jobs : processing_jobs[j].source_key = source_key}
    IN  IF known = {} THEN NoJob
        ELSE CHOOSE j \in known : \A i \in known : i <= j

(* try_join that joins running jobs only *)
try_join_running_only(source_key) ==
    IF source_key \notin DOMAIN source_to_job THEN NoJob
    ELSE LET existing_job_id == source_to_job[source_key] IN
         IF /\ existing_job_id \in DOMAIN processing_jobs
            /\ processing_jobs[existing_job_id].status \in RUNNING_STATUSES
         THEN existing_job_id
         ELSE NoJob

(* try_join that forgets the jobs still waiting for their task to start *)
try_join_not_queued(source_key) ==
    IF source_key \notin DOMAIN source_to_job THEN NoJob
    ELSE LET existing_job_id == source_to_job[source_key] IN
         IF /\ existing_job_id \in DOMAIN processing_jobs
            /\ processing_jobs[existing_job_id].status \in {"processing", "done"}
         THEN existing_job_id
         ELSE NoJob

(* routes.py:268-272: the job a submission for source_key joins, or NoJob *)
try_join(source_key) ==
    IF source_key \notin DOMAIN source_to_job THEN NoJob
    ELSE LET existing_job_id == source_to_job[source_key] IN
         IF /\ existing_job_id \in DOMAIN processing_jobs
            /\ processing_jobs[existing_job_id].status \in RUNNING_STATUSES \cup {"done"}
         THEN existing_job_id
         ELSE NoJob

(* The handler has no suspension point: it is one step, and its response is a
   function of the state it starts in. *)
process_from_url_response(url) ==
    IF url.scheme \notin {"http", "https"}
    THEN HttpError("url", 400)
    ELSE LET source_key == normalize_youtube_source(url)
             existing_job_id == try_join(source_key)
         IN  IF existing_job_id # NoJob
             THEN HttpJob("url", source_key,
                          _job_payload(existing_job_id, processing_jobs[existing_job_id]))
             ELSE HttpJob("url", source_key, _job_payload(nextId, ProcessingJob(source_key)))

(* a handler that wipes the error of the failed jobs its new job replaces *)
process_from_url_wipes_failed(url) ==
    /\ up
    /\ IF url.scheme \notin {"http", "https"}
       THEN UNCHANGED <<processing_jobs, source_to_job, bg, nextId>>
       ELSE LET source_key == normalize_youtube_source(url) IN
            IF try_join(source_key) # NoJob
            THEN UNCHANGED <<processing_jobs, source_to_job, bg, nextId>>
            ELSE /\ Room(2)
                 /\ nextId' = nextId + 1
                 /\ processing_jobs' =
                       Put([j \in DOMAIN processing_jobs |->
                               IF processing_jobs[j].source_key = source_key
                               THEN [processing_jobs[j] EXCEPT !.error = NoError]
                               ELSE processing_jobs[j]],
                           nextId, ProcessingJob(source_key))
                 /\ source_to_job' = Put(source_to_job, source_key, nextId)
                 /\ bg' = Put(bg, nextId, [pc |-> "created", data |-> NoData, work |-> NoJob])
    /\ UNCHANGED <<jobs, disk, cache, source_cache, settings, up, now, inl>>

process_from_url(url) ==
    /\ up
    /\ IF url.scheme \notin {"http", "https"}
       THEN UNCHANGED <<processing_jobs, source_to_job, bg, nextId>>
       ELSE LET source_key == normalize_youtube_source(url) IN
            IF try_join(source_key) # NoJob
            THEN UNCHANGED <<processing_jobs, source_to_job, bg, nextId>>
            ELSE /\ Room(2)
                 /\ nextId' = nextId + 1
                 /\ processing_jobs' = Put(processing_jobs, nextId, ProcessingJob(source_key))
                 /\ source_to_job' = Put(source_to_job, source_key, nextId)
                 /\ bg' = Put(bg, nextId, [pc |-> "created", data |-> NoData, work |-> NoJob])
    /\ UNCHANGED <<jobs, disk, cache, source_cache, settings, up, now, inl>>

(* the message of the exception as it is *)
ErrorDetail_raw(detail) == detail

(* job.error = detail or "Background processing failed." *)
ErrorDetail(detail) == IF detail = "" THEN "Background processing failed." ELSE detail

(* a finally block that leaves the registry alone *)
release_never(source_key, job_id, status) == source_to_job

(* a finally block that drops the entry of its job whatever the outcome *)
release_whatever_status(source_key, job_id, status) ==
    IF source_key \notin DOMAIN source_to_job \/ source_to_job[source_key] # job_id
    THEN source_to_job
    ELSE Pop(source_to_job, source_key)

(* a finally block that empties the registry when its job has failed *)
release_all_on_failure(source_key, job_id, status) ==
    IF source_key \notin DOMAIN source_to_job \/ source_to_job[source_key] # job_id
    THEN source_to_job
    ELSE IF status = "error" THEN EmptyDict
    ELSE source_to_job

(* routes.py:217-222, the finally block: source_to_job as it leaves it *)
release_on_failure(source_key, job_id, status) ==
    IF source_key \notin DOMAIN source_to_job \/ source_to_job[source_key] # job_id
    THEN source_to_job
    ELSE IF status = "error" THEN Pop(source_to_job, source_key)
    ELSE source_to_job

(* a task that writes its outcome to every job recorded for its source key *)
Finish_every_job_of_key(job_id, job, status, error, result) ==
    /\ processing_jobs' =
          [j \in DOMAIN processing_jobs |->
              IF processing_jobs[j].source_key = job.source_key
              THEN [(IF j = job_id THEN job ELSE processing_jobs[j])
                       EXCEPT !.status = status, !.error = error, !.result = result,
                              !.hist = Append(@, status)]
              ELSE processing_jobs[j]]
    /\ source_to_job' = release_on_failure(job.source_key, job_id, status)
    /\ bg' = [bg EXCEPT ![job_id].pc = "finished"]

(* The task ends: job is its record as the task has it at that point. *)
Finish(job_id, job, status, error, result) ==
    /\ processing_jobs' =
          [processing_jobs EXCEPT ![job_id] =
              [job EXCEPT !.status = status, !.error = error, !.result = result,
                          !.hist = Append(job.hist, status)]]
    /\ source_to_job' = release_on_failure(job.source_key, job_id, status)
    /\ bg' = [bg EXCEPT ![job_id].pc = "finished"]

(* a failure that frees the source key and leaves the job as it is *)
Fail_key_freed_status_kept(job_id, job, detail) ==
    /\ processing_jobs' = [processing_jobs EXCEPT ![job_id] = job]
    /\ source_to_job' = release_on_failure(job.source_key, job_id, "error")
    /\ bg' = [bg EXCEPT ![job_id].pc = "finished"]

(* a failure that records the message and leaves the status as it is *)
Fail_status_kept(job_id, job, detail) ==
    /\ processing_jobs' = [processing_jobs EXCEPT ![job_id] = [job EXCEPT !.error = ErrorDetail(detail)]]
    /\ source_to_job' = release_on_failure(job.source_key, job_id, job.status)
    /\ bg' = [bg EXCEPT ![job_id].pc = "finished"]

Fail(job_id, job, detail) == Finish(job_id, job, "error", ErrorDetail(detail), NoResult)

(* a task that starts without marking its job *)
Processing_skipped(job) == job

(* routes.py:188: job.status = "processing" *)
Processing(job) == [job EXCEPT !.status = "processing", !.hist = Append(job.hist, "processing")]

(* routes.py:198-207 after resolve_youtube_audio returned `downloaded`: the size
   check, then _process_with_hash up to its first suspension (the copy of the
   downloaded file into the working directory) or to the end of the task. *)
AfterAcquire(job_id, job, downloaded) ==
    LET look == _get_cached_response(sha256(downloaded.data)) IN
    IF downloaded.big
    THEN /\ Fail(job_id, job, "Downloaded audio exceeds maximum size.")
         /\ UNCHANGED <<jobs, cache, disk, nextId>>
    ELSE /\ jobs' = look.jobs
         /\ cache' = look.cache
         /\ IF look.hit
            THEN /\ Finish(job_id, job, "done", NoError, look.response)
                 /\ UNCHANGED <<disk, nextId>>
            ELSE IF settings.gradium_api_key = ""
            THEN /\ Fail(job_id, job, "GRADIUM_API_KEY is missing.")
                 /\ UNCHANGED <<disk, nextId>>
            ELSE /\ disk' = mkdtemp(nextId)
                 /\ nextId' = nextId + 1
                 /\ processing_jobs' = [processing_jobs EXCEPT ![job_id] = job]
                 /\ bg' = [bg EXCEPT ![job_id] =
                              [pc |-> "copy", data |-> downloaded.data, work |-> nextId]]
                 /\ UNCHANGED source_to_job

(* The task starts: status = "processing", then resolve_youtube_audio, which
   returns at once when known_sources holds the source (the downloaded file is
   never deleted by this program) and otherwise suspends in the download. *)
BgStart(job_id) ==
    /\ up
    /\ job_id \in DOMAIN bg /\ bg[job_id].pc = "created"
    /\ LET job == Processing(processing_jobs[job_id]) IN
       IF job.source_key \in DOMAIN source_cache
       THEN AfterAcquire(job_id, job, source_cache[job.source_key])
       ELSE /\ processing_jobs' = [processing_jobs EXCEPT ![job_id] = job]
            /\ bg' = [bg EXCEPT ![job_id].pc = "download"]
            /\ UNCHANGED <<jobs, cache, disk, nextId, source_to_job>>
    /\ UNCHANGED <<source_cache, settings, up, now, inl>>

(* What the download and the hashing of the downloaded file can end with *)
Downloads ==
    [outcome : {"ok"}, data : Datas, big : {FALSE}]
    \cup [outcome : {"ok"}, data : {BigData}, big : {TRUE}]
    \cup [outcome : {"VideoDownloadError", "Exception"}, data : {NoData}, big : {FALSE}]

(* _download_with_ytdlp and _hash_file have run (two suspensions, between
   which the task changes nothing but the file it downloads). *)
BgAcquired(job_id, dl) ==
    /\ up
    /\ job_id \in DOMAIN bg /\ bg[job_id].pc = "download"
    /\ LET job == processing_jobs[job_id] IN
       IF dl.outcome = "ok"
       THEN /\ source_cache' = Put(source_cache, job.source_key,
                                   [data |-> dl.data, big |-> dl.big])
            /\ AfterAcquire(job_id, job, dl)
       ELSE /\ Fail(job_id, job,
                    IF dl.outcome = "VideoDownloadError"
                    THEN "Failed to download YouTube audio."
                    ELSE "Unexpected background processing error.")
            /\ UNCHANGED <<source_cache, jobs, cache, disk, nextId>>
    /\ UNCHANGED <<settings, up, now, inl>>

(* shutil.copy2 in a thread has ended; on success separate() starts. *)
BgCopied(job_id, ok) ==
    /\ up
    /\ job_id \in DOMAIN bg /\ bg[job_id].pc = "copy"
    /\ IF ok
       THEN /\ disk' = write_input(disk, bg[job_id].work, "youtube_source.m4a")
            /\ bg' = [bg EXCEPT ![job_id].pc = "separate"]
            /\ UNCHANGED <<processing_jobs, source_to_job>>
       ELSE /\ Fail(job_id, processing_jobs[job_id], "Unexpected background processing error.")
            /\ UNCHANGED disk
    /\ UNCHANGED <<jobs, cache, source_cache, settings, up, now, nextId, inl>>

(* separate() has ended; str(exc) of a SeparationError may be empty. *)
SeparationDetails == {"Demucs separation failed.", ""}

BgSeparated(job_id, ok, detail) ==
    /\ up
    /\ job_id \in DOMAIN bg /\ bg[job_id].pc = "separate"
    /\ ok => detail = ""
    /\ IF ok
       THEN /\ disk' = [disk EXCEPT ![bg[job_id].work].files = @ \cup OutputNames]
            /\ bg' = [bg EXCEPT ![job_id].pc = "transcribe"]
            /\ UNCHANGED <<processing_jobs, source_to_job>>
       ELSE /\ Fail(job_id, processing_jobs[job_id], detail)
            /\ UNCHANGED disk
    /\ UNCHANGED <<jobs, cache, source_cache, settings, up, now, nextId, inl>>

(* transcribe() has ended; on success routes.py:145-156, 177, 208-209. *)
BgTranscribed(job_id, ok, lyrics) ==
    /\ up
    /\ job_id \in DOMAIN bg /\ bg[job_id].pc = "transcribe"
    /\ IF ok
       THEN LET response == ProcessResponse(bg[job_id].work, lyrics) IN
            /\ jobs' = Put(jobs, bg[job_id].work, StoredJob(now))
            /\ cache' = publish(sha256(bg[job_id].data), response)
            /\ Finish(job_id, processing_jobs[job_id], "done", NoError, response)
       ELSE /\ Fail(job_id, processing_jobs[job_id], "Gradium transcription failed.")
            /\ UNCHANGED <<jobs, cache>>
    /\ UNCHANGED <<disk, source_cache, settings, up, now, nextId, inl>>

---------------------------------------------------------------------------
(* GET /api/jobs/{job_id} and GET /api/files/{job_id}/{filename} read the
   state and change nothing: the response is a function of the state. *)

(* a poll that forgets a finished job once its artifacts are gone *)
get_job_response_needs_artifacts(job_id) ==
    IF /\ job_id \in DOMAIN processing_jobs
       /\ processing_jobs[job_id].status = "done" =>
              processing_jobs[job_id].result.job_id \in DOMAIN jobs
    THEN HttpJob("poll", NoKey, _job_payload(job_id, processing_jobs[job_id]))
    ELSE [HttpError("poll", 404) EXCEPT !.job_id = job_id]

(* get_job: the response *)
get_job_response(job_id) ==
    IF job_id \in DOMAIN processing_jobs
    THEN HttpJob("poll", NoKey, _job_payload(job_id, processing_jobs[job_id]))
    ELSE [HttpError("poll", 404) EXCEPT !.job_id = job_id]

get_job(job_id) ==
    /\ up
    /\ get_job_response(job_id).code \in {200, 404}
    /\ UNCHANGED vars

(* the names asked for: the two outputs and the input a job directory holds *)
FileNames == OutputNames \cup {"input.wav"}

(* get_file: the response; on success it names the job whose directory the
   file is served from. *)
(* a handler that serves whatever file the job directory holds *)
get_file_response_any_name(job_id, filename) ==
    IF job_id \notin DOMAIN jobs
    THEN [HttpError("file", 404) EXCEPT !.error = "Job not found."]
    ELSE IF filename \notin disk[job_id].files
    THEN [HttpError("file", 404) EXCEPT !.error = "File not found."]
    ELSE [NoHttp EXCEPT !.op = "file", !.code = 200, !.job_id = job_id, !.file = filename]

(* a handler that looks for the file under the job's directory without
   asking the store for the job *)
get_file_response_from_disk(job_id, filename) ==
    IF filename \notin {"vocals.wav", "instrumental.wav"}
    THEN [HttpError("file", 404) EXCEPT !.error = "Requested file is not available."]
    ELSE IF job_id \notin DOMAIN disk \/ filename \notin disk[job_id].files
    THEN [HttpError("file", 404) EXCEPT !.error = "File not found."]
    ELSE [NoHttp EXCEPT !.op = "file", !.code = 200, !.job_id = job_id, !.file = filename]

get_file_response(job_id, filename) ==
    IF filename \notin {"vocals.wav", "instrumental.wav"}
    THEN [HttpError("file", 404) EXCEPT !.error = "Requested file is not available."]
    ELSE IF job_id \notin DOMAIN jobs
    THEN [HttpError("file", 404) EXCEPT !.error = "Job not found."]
    ELSE IF filename \notin disk[job_id].files
    THEN [HttpError("file", 404) EXCEPT !.error = "File not found."]
    ELSE [NoHttp EXCEPT !.op = "file", !.code = 200, !.job_id = job_id, !.file = filename]

get_file(job_id, filename) ==
    /\ up
    /\ get_file_response(job_id, filename).code \in {200, 404}
    /\ UNCHANGED vars

---------------------------------------------------------------------------
(* The sweeper and the clock *)

(* a sweeper whose pass removes nothing *)
_cleanup_loop_idle(kept) ==
    /\ up
    /\ UNCHANGED vars

(* a pass that keeps the entry of a job whose directory it could not delete *)
_cleanup_loop_entry_kept_on_failure(kept) ==
    /\ up
    /\ jobs' = [j \in DOMAIN jobs \ (expired(now) \ kept) |-> jobs[j]]
    /\ disk' = rmtree(expired(now), kept)
    /\ UNCHANGED <<cache, processing_jobs, source_to_job, source_cache, settings, up,
                   now, nextId, inl, bg>>

(* One pass of _cleanup_loop after its sleep (main.py:62-75) *)
_cleanup_loop(kept) ==
    /\ up
    /\ jobs' = [j \in DOMAIN jobs \ expired(now) |-> jobs[j]]
    /\ disk' = rmtree(expired(now), kept)
    /\ UNCHANGED <<cache, processing_jobs, source_to_job, source_cache, settings, up,
                   now, nextId, inl, bg>>

Tick ==
    /\ up
    /\ now < MaxTime
    /\ now' = now + 1
    /\ UNCHANGED <<jobs, disk, cache, processing_jobs, source_to_job, source_cache,
                   settings, up, nextId, inl, bg>>

---------------------------------------------------------------------------

Removals == SUBSET expired(now)

(* The submissions that may start a pipeline run *)
SubmitInline == \E r \in Reqs, file \in Uploads, kept \in Removals : InlineStart(r, file, kept)
SubmitUrl == \E url \in Urls : process_from_url(url)

(* The steps of admitted work, the reads, the sweeper and the clock *)
Steps ==
    \/ \E r \in Reqs : InlineRead(r)
    \/ \E r \in Reqs, ok \in BOOLEAN : InlineSeparated(r, ok)
    \/ \E r \in Reqs, ok \in BOOLEAN, lyrics \in Lyrics : InlineTranscribed(r, ok, lyrics)
    \/ \E job_id \in Ids : BgStart(job_id)
    \/ \E job_id \in Ids, dl \in Downloads : BgAcquired(job_id, dl)
    \/ \E job_id \in Ids, ok \in BOOLEAN : BgCopied(job_id, ok)
    \/ \E job_id \in Ids, ok \in BOOLEAN, detail \in SeparationDetails :
          BgSeparated(job_id, ok, detail)
    \/ \E job_id \in Ids, ok \in BOOLEAN, lyrics \in Lyrics : BgTranscribed(job_id, ok, lyrics)
    \/ \E job_id \in DOMAIN processing_jobs \cup {UnknownId} : get_job(job_id)
    \/ \E job_id \in DOMAIN jobs \cup {UnknownId}, filename \in FileNames :
          get_file(job_id, filename)
    \/ \E kept \in Removals : _cleanup_loop(kept)
    \/ Tick

Next == SubmitInline \/ SubmitUrl \/ Steps

(* The application while it serves: from start-up on, shutdown left out *)
Spec == Init /\ [][Next]_vars

(* lifespan() after `yield` (main.py:95-105): the sweeper is cancelled, then
   the directory of every stored job but the demo job is deleted, failures
   ignored; app.state.jobs keeps its entries. The process ends there: the
   tasks still running are cancelled with the event loop. *)
lifespan_shutdown(kept) ==
    /\ up
    /\ up' = FALSE
    /\ disk' = rmtree(DOMAIN jobs \ {DEMO_JOB_ID}, kept)
    /\ UNCHANGED <<jobs, cache, processing_jobs, source_to_job, source_cache,
                   settings, now, nextId, inl, bg>>

Shutdown == \E kept \in SUBSET (DOMAIN jobs \ {DEMO_JOB_ID}) : lifespan_shutdown(kept)

(* The application from start-up to shutdown *)
NextLife == SubmitInline \/ SubmitUrl \/ Steps \/ Shutdown

SpecLife == Init /\ [][NextLife]_vars

(* Submissions issued in sequence: a client sends one only when every earlier
   one has been served and every background task has ended. *)
Quiet ==
    /\ \A r \in Reqs : inl[r].pc \in {"idle", "ok", "err"}
    /\ \A j \in DOMAIN bg : bg[j].pc = "finished"

NextSeq == (Quiet /\ SubmitInline) \/ (Quiet /\ SubmitUrl) \/ Steps

SpecSeq == Init /\ [][NextSeq]_vars

(* The event loop runs every task it has created, and every awaited stage call
   returns or raises in finite time. *)
Fairness ==
    \A job_id \in Ids :
        /\ WF_vars(BgStart(job_id))
        /\ WF_vars(\E dl \in Downloads : BgAcquired(job_id, dl))
        /\ WF_vars(\E ok \in BOOLEAN : BgCopied(job_id, ok))
        /\ WF_vars(\E ok \in BOOLEAN, detail \in SeparationDetails : BgSeparated(job_id, ok, detail))
        /\ WF_vars(\E ok \in BOOLEAN, lyrics \in Lyrics : BgTranscribed(job_id, ok, lyrics))

FairSpec == Spec /\ Fairness

(* The sweeper task is never cancelled while the process is up: its sleep
   ends, so the clock advances and the pass after the sleep runs. *)
SweepFairness ==
    /\ WF_vars(Tick)
    /\ WF_vars(\E kept \in Removals : _cleanup_loop(kept))

FairSweep == Spec /\ SweepFairness

(* A request handler is a coroutine of the same event loop: it is run, and
   the body read and the stage calls it awaits end. *)
InlineFairness ==
    \A r \in Reqs :
        /\ WF_vars(InlineRead(r))
        /\ WF_vars(\E ok \in BOOLEAN : InlineSeparated(r, ok))
        /\ WF_vars(\E ok \in BOOLEAN, lyrics \in Lyrics : InlineTranscribed(r, ok, lyrics))

FairRuns == Spec /\ Fairness /\ InlineFairness

(* every task, every handler, the sweeper and the clock go on *)
FairAll == FairRuns /\ SweepFairness

---------------------------------------------------------------------------
(* Properties *)

HttpUrls == {url \in Urls : url.scheme \in {"http", "https"}}

(* The reference jobs of source_key that are queued or processing *)
RunningJobs(source_key) ==
    {j \in DOMAIN processing_jobs :
        /\ processing_jobs[j].source_key = source_key
        /\ processing_jobs[j].status \in {"queued", "processing"}}

(* The tasks of source_key that are in the given pipeline stage *)
InStage(source_key, pcs) ==
    {j \in DOMAIN bg : processing_jobs[j].source_key = source_key /\ bg[j].pc \in pcs}

C1_StagesOnce ==
    \A k \in Keys :
        /\ Cardinality(RunningJobs(k)) <= 1
        /\ Cardinality(InStage(k, {"created", "download"})) <= 1
        /\ Cardinality(InStage(k, {"copy", "separate"})) <= 1
        /\ Cardinality(InStage(k, {"transcribe"})) <= 1

C1_Join ==
    \A url \in HttpUrls :
        \A j \in RunningJobs(normalize_youtube_source(url)) :
            /\ process_from_url_response(url).job_id = j
            /\ process_from_url_response(url).code = 202
            /\ process_from_url(url) => UNCHANGED <<processing_jobs, source_to_job, bg, nextId>>

(* C1: while a reference job is queued or processing, every submission whose
   reference normalizes to its source key is answered with that job's id and
   creates no job, and at most one task of that key is in acquisition, in
   separation and in transcription. *)
C1_InFlightDedup == [](C1_StagesOnce) /\ [][C1_Join]_vars

(* Two references of different shape have joined one processing job. *)
C1_Witness ==
    \E j \in DOMAIN processing_jobs :
        /\ processing_jobs[j].status = "processing"
        /\ bg[j].pc = "separate"
        /\ Cardinality({url \in HttpUrls : process_from_url_response(url).job_id = j}) = 2

(* The pipeline runs, past a Result Cache miss and not yet published, that
   carry the fingerprint file_hash *)
RunsOf(file_hash) ==
    {<<"inline", r>> : r \in {x \in Reqs : /\ inl[x].pc \in {"separate", "transcribe"}
                                          /\ sha256(inl[x].data) = file_hash}}
    \cup
    {<<"url", j>> : j \in {x \in DOMAIN bg : /\ bg[x].pc \in {"copy", "separate", "transcribe"}
                                            /\ sha256(bg[x].data) = file_hash}}

(* C2: two submissions with the same fingerprint never both miss the Result
   Cache and both run separation/transcription. *)
C2_FingerprintAtomicity ==
    \A d \in Datas : Cardinality(RunsOf(sha256(d))) <= 1

(* The working directories created for runs on the bytes data *)
WorkDirs(data) ==
    {inl[r].work : r \in {x \in Reqs : inl[x].data = data /\ inl[x].work # NoJob}}
    \cup {bg[j].work : j \in {x \in DOMAIN bg : bg[x].data = data /\ bg[x].work # NoJob}}

(* C3: when the same bytes are submitted inline twice in sequence and the job
   of the first response has not been evicted, the second response equals the
   first, the second submission runs no separation and no transcription, and
   the run of the first submission is the only one on those bytes since. *)
C3_CacheCorrectness ==
    \A r1 \in Reqs, r2 \in Reqs :
        (/\ r1 < r2
         /\ inl[r1].pc = "ok" /\ inl[r2].pc = "ok"
         /\ inl[r1].data = inl[r2].data
         /\ inl[r1].ret.job_id \in DOMAIN jobs)
        => /\ inl[r2].ret = inl[r1].ret
           /\ vocals_url(inl[r2].ret) = vocals_url(inl[r1].ret)
           /\ instrumental_url(inl[r2].ret) = instrumental_url(inl[r1].ret)
           /\ inl[r2].work = NoJob
           /\ inl[r1].work # NoJob =>
                {w \in WorkDirs(inl[r1].data) : w >= inl[r1].work} = {inl[r1].work}

(* The first submission ran the pipeline, the second was served. *)
C3_Witness ==
    /\ inl[1].pc = "ok" /\ inl[2].pc = "ok"
    /\ inl[1].data = inl[2].data
    /\ inl[1].work # NoJob
    /\ inl[1].ret.job_id \in DOMAIN jobs
    /\ inl[2].ret = inl[1].ret

(* The output files of the job a result names are in the Artifact Store *)
ArtifactsExist(result) ==
    /\ result.job_id \in DOMAIN jobs
    /\ OutputNames \subseteq disk[result.job_id].files

(* C4: submit_by_reference never answers with a done job whose output
   artifacts are no longer in the Artifact Store. *)
C4_LivenessOnJoin ==
    \A url \in HttpUrls :
        LET response == process_from_url_response(url) IN
        response.status = "done" => ArtifactsExist(response.result)

(* The reference jobs created for source_key, and the newest of them *)
JobsOf(source_key) ==
    {j \in DOMAIN processing_jobs : processing_jobs[j].source_key = source_key}

LatestJob(source_key) ==
    CHOOSE j \in JobsOf(source_key) : \A i \in JobsOf(source_key) : i <= j

Failed(source_key) ==
    /\ JobsOf(source_key) # {}
    /\ processing_jobs[LatestJob(source_key)].status = "error"

C5_Response ==
    \A url \in HttpUrls :
        Failed(normalize_youtube_source(url)) =>
            LET response == process_from_url_response(url) IN
            /\ response.code = 202
            /\ response.status = "queued"
            /\ response.error = NoError /\ response.result = NoResult
            /\ response.job_id \notin DOMAIN processing_jobs

C5_Created ==
    \A url \in HttpUrls :
        (Failed(normalize_youtube_source(url)) /\ process_from_url(url)) =>
            LET job_id == process_from_url_response(url).job_id IN
            /\ job_id \in DOMAIN processing_jobs'
            /\ processing_jobs'[job_id].status = "queued"
            /\ processing_jobs'[job_id].source_key = normalize_youtube_source(url)
            /\ source_to_job'[normalize_youtube_source(url)] = job_id
            /\ \A j \in DOMAIN processing_jobs : processing_jobs'[j] = processing_jobs[j]

(* C5: when the newest reference job of a source key has failed, the next
   submission for that key is answered with a job in state queued under an
   identifier no job has had, and creates and registers that job. *)
C5_FailureRetry == [](C5_Response) /\ [][C5_Created]_vars

(* A key whose first job failed and whose retry is queued. *)
C5_Witness ==
    \E j1 \in DOMAIN processing_jobs, j2 \in DOMAIN processing_jobs :
        /\ j1 < j2
        /\ processing_jobs[j1].source_key = processing_jobs[j2].source_key
        /\ processing_jobs[j1].status = "error"
        /\ processing_jobs[j2].status = "queued"
        /\ source_to_job[processing_jobs[j2].source_key] = j2

Terminal == {"done", "error"}

(* the terminal states a job has been put in so far *)
TerminalSteps(job) == {i \in DOMAIN job.hist : job.hist[i] \in Terminal}

C6_OneTerminal ==
    \A j \in DOMAIN processing_jobs :
        /\ Cardinality(TerminalSteps(processing_jobs[j])) <= 1
        /\ bg[j].pc = "finished" => processing_jobs[j].status \in Terminal

C6_Eventually ==
    \A j \in Ids :
        (j \in DOMAIN processing_jobs)
            ~> (j \in DOMAIN processing_jobs /\ processing_jobs[j].status \in Terminal)

(* C6: when tasks are run and stage calls end, every reference job reaches a
   terminal state, and it is put in a terminal state at most once. *)
C6_Totality == C6_Eventually /\ [](C6_OneTerminal)

(* A job that has run every stage to the end. *)
C6_Witness ==
    \E j \in DOMAIN processing_jobs :
        /\ processing_jobs[j].status = "done"
        /\ bg[j].work # NoJob
        /\ bg[j].pc = "finished"

StatusPaths ==
    { <<"queued">>, <<"queued", "processing">>,
      <<"queued", "processing", "done">>, <<"queued", "processing", "error">> }

C7_Shape ==
    \A j \in DOMAIN processing_jobs :
        /\ processing_jobs[j].hist \in StatusPaths
        /\ processing_jobs[j].status = processing_jobs[j].hist[Len(processing_jobs[j].hist)]

C7_Steps ==
    \A j \in DOMAIN processing_jobs :
        /\ j \in DOMAIN processing_jobs'
        /\ SubSeq(processing_jobs'[j].hist, 1, Len(processing_jobs[j].hist)) = processing_jobs[j].hist
        /\ processing_jobs[j].status \in Terminal =>
              processing_jobs'[j].status = processing_jobs[j].status

(* C7: the values assigned to a reference job's status form a path queued,
   processing, then done or error; a step only extends that path and never
   changes a terminal status. *)
C7_Transitions == [](C7_Shape) /\ [][C7_Steps]_vars

(* One job has ended done and another has ended in error. *)
C7_Witness ==
    \E j1 \in DOMAIN processing_jobs, j2 \in DOMAIN processing_jobs :
        /\ processing_jobs[j1].hist = <<"queued", "processing", "error">>
        /\ processing_jobs[j2].hist = <<"queued", "processing", "done">>

(* C8: a job in state done or error stays in the Job Registry with the same
   status, result and error, and a poll of it gives the same response, after
   every step of any handler, task or sweep. *)
C8_TerminalImmutable ==
    [][\A j \in DOMAIN processing_jobs :
          processing_jobs[j].status \in Terminal =>
              /\ j \in DOMAIN processing_jobs'
              /\ processing_jobs'[j].status = processing_jobs[j].status
              /\ processing_jobs'[j].result = processing_jobs[j].result
              /\ processing_jobs'[j].error = processing_jobs[j].error
              /\ get_job_response(j)' = get_job_response(j)]_vars

(* A job failed, a later job of the same key ended done, and the artifacts
   of that one were swept. *)
C8_Witness ==
    \E j1 \in DOMAIN processing_jobs, j2 \in DOMAIN processing_jobs :
        /\ j1 < j2
        /\ processing_jobs[j1].source_key = processing_jobs[j2].source_key
        /\ processing_jobs[j1].status = "error"
        /\ processing_jobs[j2].status = "done"
        /\ processing_jobs[j2].result.job_id \notin DOMAIN jobs

(* C9: the response of a poll carries an error exactly when its status is
   error and a result exactly when its status is done. *)
C9_FieldsMatchState ==
    \A j \in DOMAIN processing_jobs :
        LET response == get_job_response(j) IN
        /\ response.code = 200
        /\ response.error # NoError <=> response.status = "error"
        /\ response.result # NoResult <=> response.status = "done"

(* A job failed on an exception without message, another is done. *)
C9_Witness ==
    \E j1 \in DOMAIN processing_jobs, j2 \in DOMAIN processing_jobs :
        /\ get_job_response(j1).status = "error"
        /\ get_job_response(j1).error = "Background processing failed."
        /\ get_job_response(j2).status = "done"

Hashes == {sha256(d) : d \in Datas}

(* C10: a lookup that returns a response does so for a fingerprint that has an
   entry, whose job is in the Artifact Store with both output files on disk,
   and returns the response of that entry. *)
C10_LookupSound ==
    \A file_hash \in Hashes :
        LET look == _get_cached_response(file_hash) IN
        look.hit =>
            /\ file_hash \in DOMAIN cache
            /\ cache[file_hash].job_id \in DOMAIN jobs
            /\ "vocals.wav" \in disk[cache[file_hash].job_id].files
            /\ "instrumental.wav" \in disk[cache[file_hash].job_id].files
            /\ look.response = cache[file_hash].response

(* An inline submission was served from the entry of a job that ran. *)
C10_Witness ==
    \E r \in Reqs :
        /\ inl[r].pc = "ok" /\ inl[r].work = NoJob
        /\ inl[r].ret.job_id # DEMO_JOB_ID
        /\ _get_cached_response(sha256(inl[r].data)).hit

(* The fingerprints whose cache entry names a job the Artifact Store has lost *)
Evicted == {h \in DOMAIN cache : cache[h].job_id \notin DOMAIN jobs}

C11_Lookup ==
    \A file_hash \in Evicted :
        LET look == _get_cached_response(file_hash) IN
        /\ ~look.hit
        /\ file_hash \notin DOMAIN look.cache
        /\ look.jobs = jobs

C11_Resubmit ==
    \A r \in Reqs :
        LET file_hash == sha256(inl[r].data) IN
        (inl[r].pc = "read" /\ ~inl[r].big /\ file_hash \in Evicted /\ InlineRead(r)) =>
            /\ file_hash \notin DOMAIN cache'
            /\ inl'[r].pc = "separate"
            /\ inl'[r].work \notin DOMAIN jobs \cup {cache[file_hash].job_id}
            /\ inl'[r].work \notin {x.job_id : x \in {cache[h] : h \in DOMAIN cache}}
            /\ disk'[inl'[r].work] = [dir |-> TRUE, files |-> {"input.wav"}]

C11_Publish ==
    \A r \in Reqs :
        (inl[r].pc = "transcribe" /\ inl'[r].pc = "ok") =>
            /\ cache'[sha256(inl[r].data)].job_id = inl[r].work
            /\ cache'[sha256(inl[r].data)].response = inl'[r].ret
            /\ inl'[r].ret.job_id = inl[r].work
            /\ inl[r].work \in DOMAIN jobs' \ DOMAIN jobs

(* C11: a lookup of a fingerprint whose entry names an evicted job reports a
   miss and removes the entry; an inline submission of those bytes then starts
   a run in a working directory of a fresh job_id, and a run that ends
   publishes the entry of its own job_id, stored by that step. *)
C11_SelfHeal == [](C11_Lookup) /\ [][C11_Resubmit /\ C11_Publish]_vars

(* The job of the first response was evicted, the second submission of the
   same bytes ran the pipeline and the entry names its job. *)
C11_Witness ==
    /\ inl[1].pc = "ok" /\ inl[2].pc = "ok"
    /\ inl[1].data = inl[2].data
    /\ inl[1].ret.job_id \notin DOMAIN jobs
    /\ inl[2].work # NoJob /\ inl[2].work # inl[1].ret.job_id
    /\ cache[sha256(inl[2].data)].job_id = inl[2].work

(* A step in which the lookup of an inline submission, or of a reference job,
   served a cache entry *)
ServedInline(r) ==
    inl[r].pc = "read" /\ inl'[r].pc = "ok"

ServedUrl(j) ==
    /\ j \in DOMAIN bg /\ bg[j].pc \in {"created", "download"}
    /\ bg'[j].pc = "finished" /\ processing_jobs'[j].status = "done"

C12_Refresh ==
    /\ \A r \in Reqs :
          ServedInline(r) =>
              /\ inl'[r].ret.job_id \in DOMAIN jobs'
              /\ jobs'[inl'[r].ret.job_id].created_at = now
    /\ \A j \in Ids :
          ServedUrl(j) =>
              /\ processing_jobs'[j].result.job_id \in DOMAIN jobs'
              /\ jobs'[processing_jobs'[j].result.job_id].created_at = now

C12_Kept ==
    \A j \in DOMAIN jobs :
        /\ now - jobs[j].created_at <= job_ttl_seconds =>
              /\ j \in DOMAIN jobs'
              /\ disk'[j] = disk[j]
        /\ j \in DOMAIN jobs' => jobs'[j].created_at >= jobs[j].created_at

(* C12: a step that serves a cache hit leaves created_at of the job it names
   equal to the time of the hit, created_at never decreases, and no step (no
   sweeper pass, no request-path cleanup) removes the entry or the directory of
   a job whose created_at is at most the time-to-live ago. *)
C12_ReadExtendsLife == [][C12_Refresh /\ C12_Kept]_vars

(* A job stored two time-to-lives ago and served since is still stored. *)
C12_Witness ==
    \E j \in DOMAIN jobs :
        /\ j # DEMO_JOB_ID
        /\ now - jobs[j].born > job_ttl_seconds
        /\ jobs[j].created_at > jobs[j].born
        /\ OutputNames \subseteq disk[j].files

(* A step that is one pass of the sweeper *)
Swept == \E kept \in Removals : _cleanup_loop(kept)

Age(j) == now - jobs[j].created_at

(* What a pass does to the stored job j; `always_deleted` says the directory
   of a removed job is gone whatever rmtree met. *)
SweepRule(j, always_deleted) ==
    IF Age(j) > job_ttl_seconds /\ j # DEMO_JOB_ID
    THEN /\ j \notin DOMAIN jobs'
         /\ IF always_deleted THEN disk'[j] = NoDir
            ELSE disk'[j] = NoDir \/ (disk'[j].dir /\ disk'[j].files \subseteq disk[j].files)
    ELSE /\ j \in DOMAIN jobs' /\ jobs'[j] = jobs[j]
         /\ disk'[j] = disk[j]

(* C13 as stated: a pass removes the entry and the directory of every non-demo
   job older than the time-to-live and removes no other job. *)
C13_SweepRemovesDirectories == [][Swept => \A j \in DOMAIN jobs : SweepRule(j, TRUE)]_vars

(* C13, amended: a pass removes the entry of every non-demo job older than the
   time-to-live, and its directory unless the deletion fails (the failure is
   ignored and what was not deleted stays); it leaves the entry and the
   directory of every job that is at most the time-to-live old as they were. *)
C13_SweepRule == [][Swept => \A j \in DOMAIN jobs : SweepRule(j, FALSE)]_vars

(* The job an inline run stored has been removed, entry and directory, and a
   younger job is still stored. *)
C13_Witness ==
    \E r \in Reqs :
        /\ inl[r].pc = "ok" /\ inl[r].work # NoJob
        /\ inl[r].work \notin DOMAIN jobs
        /\ disk[inl[r].work] = NoDir
        /\ \E j \in DOMAIN jobs : j # DEMO_JOB_ID /\ Age(j) <= job_ttl_seconds

(* C14: once the demo entry is in the Artifact Store, no step (sweeper pass,
   request-path cleanup, shutdown or any other) removes its entry or changes
   its directory, whatever its age. *)
C14_DemoExemption ==
    [][(DEMO_JOB_ID \in DOMAIN jobs) =>
          (DEMO_JOB_ID \in DOMAIN jobs' /\ disk'[DEMO_JOB_ID] = disk[DEMO_JOB_ID])]_vars

(* After shutdown the demo entry, older than the time-to-live, is stored with
   its files, the job a run stored at the same time was swept, and the
   directory of a younger job was deleted by the shutdown. *)
C14_Witness ==
    /\ ~up
    /\ DEMO_JOB_ID \in DOMAIN jobs
    /\ Age(DEMO_JOB_ID) > job_ttl_seconds
    /\ disk[DEMO_JOB_ID] = [dir |-> TRUE, files |-> OutputNames]
    /\ \E r \in Reqs : inl[r].pc = "ok" /\ inl[r].work # NoJob /\ inl[r].work \notin DOMAIN jobs
    /\ \E j \in DOMAIN jobs : j # DEMO_JOB_ID /\ disk[j] = NoDir

(* C15: whatever the job_id and whatever the Artifact Store holds, get_file
   answers 200 only for vocals.wav and instrumental.wav, and answers any other
   name with the 404 of the name check, the one raised before app.state.jobs
   is read. *)
C15_ArtifactNaming ==
    \A job_id \in Ids \cup {DEMO_JOB_ID, UnknownId}, filename \in FileNames :
        LET response == get_file_response(job_id, filename) IN
        /\ response.code = 200 => filename \in {"vocals.wav", "instrumental.wav"}
        /\ filename \notin {"vocals.wav", "instrumental.wav"} =>
              response = [HttpError("file", 404) EXCEPT !.error = "Requested file is not available."]

(* A stored job whose directory holds its input next to the two outputs: the
   outputs are served, the input is refused. *)
C15_Witness ==
    \E job_id \in DOMAIN jobs :
        /\ "input.wav" \in disk[job_id].files
        /\ get_file_response(job_id, "vocals.wav").code = 200
        /\ get_file_response(job_id, "instrumental.wav").code = 200
        /\ get_file_response(job_id, "input.wav").code = 404

DoneJobs(source_key) ==
    {j \in JobsOf(source_key) : processing_jobs[j].status = "done"}

C16_Response ==
    \A url \in HttpUrls :
        \A j \in DoneJobs(normalize_youtube_source(url)) :
            LET response == process_from_url_response(url) IN
            /\ response.code = 202
            /\ response.job_id = j
            /\ response.status = "done"
            /\ response.result = processing_jobs[j].result
            /\ response.error = NoError

C16_NothingStarted ==
    \A url \in HttpUrls :
        (DoneJobs(normalize_youtube_source(url)) # {} /\ process_from_url(url)) =>
            UNCHANGED <<processing_jobs, source_to_job, bg, nextId, source_cache, disk>>

(* C16: once a reference job of a source key is done, every submission whose
   reference normalizes to that key is answered with that job, in state done
   with its result, and the submission creates no job, starts no task (so no
   acquisition) and leaves the registries as they are. *)
C16_ReuseAfterSuccess == [](C16_Response) /\ [][C16_NothingStarted]_vars

(* A job that ran every stage is done, its task has ended, time has passed
   and both references of its key are answered with it. *)
C16_Witness ==
    \E j \in DOMAIN processing_jobs :
        /\ processing_jobs[j].status = "done"
        /\ bg[j].pc = "finished" /\ bg[j].work # NoJob
        /\ now > 0
        /\ Cardinality({url \in HttpUrls :
                           /\ process_from_url_response(url).job_id = j
                           /\ process_from_url_response(url).status = "done"}) = 2

(* The Result Cache holds a valid entry for file_hash *)
ValidEntry(file_hash) ==
    /\ file_hash \in DOMAIN cache
    /\ cache[file_hash].job_id \in DOMAIN jobs
    /\ OutputNames \subseteq disk[cache[file_hash].job_id].files

(* What the task of job j does when the bytes it acquired have a valid entry *)
ShortCircuit(j, data) ==
    /\ processing_jobs'[j].status = "done"
    /\ processing_jobs'[j].result = cache[sha256(data)].response
    /\ processing_jobs'[j].error = NoError
    /\ bg'[j].pc = "finished" /\ bg'[j].work = NoJob
    /\ UNCHANGED <<disk, nextId, cache>>

(* The entries runs have published are entries of contents within the size
   limit *)
C17_Published ==
    \A file_hash \in DOMAIN cache :
        cache[file_hash].job_id # DEMO_JOB_ID => file_hash \in Hashes

C17_Step ==
       \A j \in Ids :
          /\ \A dl \in Downloads :
                (dl.outcome = "ok" /\ ~dl.big /\ ValidEntry(sha256(dl.data)) /\ BgAcquired(j, dl))
                    => ShortCircuit(j, dl.data)
          /\ (/\ j \in DOMAIN bg /\ bg[j].pc = "created"
              /\ processing_jobs[j].source_key \in DOMAIN source_cache
              /\ ~source_cache[processing_jobs[j].source_key].big
              /\ ValidEntry(sha256(source_cache[processing_jobs[j].source_key].data))
              /\ BgStart(j))
                => ShortCircuit(j, source_cache[processing_jobs[j].source_key].data)

(* C17: when the bytes a reference job has acquired (downloaded, or known from
   an earlier download of the source) have a valid Result Cache entry that a
   run published, which is always an entry of a content within the size
   limit, that step ends the job done with the cached response; no working
   directory is created and no stage is started. *)
C17_CrossPathShortCircuit == [](C17_Published) /\ [][C17_Step]_vars

(* A reference job ended done on the entry an inline run published. *)
C17_Witness ==
    \E j \in DOMAIN processing_jobs, r \in Reqs :
        /\ processing_jobs[j].status = "done" /\ bg[j].work = NoJob
        /\ inl[r].pc = "ok"
        /\ inl[r].work = processing_jobs[j].result.job_id

(* The step leaves job j failed: state error, a message, no result, its task
   ended and no In-Flight Registry entry naming it; a poll shows the same. *)
FailureRecorded(j) ==
    LET job == processing_jobs'[j] IN
    /\ job.status = "error"
    /\ job.error # NoError
    /\ job.result = NoResult
    /\ bg'[j].pc = "finished"
    /\ \A k \in DOMAIN source_to_job' : source_to_job'[k] # j
    /\ get_job_response(j)'.code = 200
    /\ get_job_response(j)'.status = "error"
    /\ get_job_response(j)'.error = job.error

(* The acquired bytes make the task fail before any stage: above the size
   limit, or a cache miss without credentials *)
FailsAfterAcquire(downloaded) ==
    \/ downloaded.big
    \/ /\ ~ValidEntry(sha256(downloaded.data))
       /\ settings.gradium_api_key = ""

C18_Step ==
    \A j \in Ids :
        /\ \A dl \in Downloads :
              (BgAcquired(j, dl) /\ (dl.outcome # "ok" \/ FailsAfterAcquire(dl)))
                  => FailureRecorded(j)
        /\ (/\ j \in DOMAIN bg /\ bg[j].pc = "created"
            /\ processing_jobs[j].source_key \in DOMAIN source_cache
            /\ FailsAfterAcquire(source_cache[processing_jobs[j].source_key])
            /\ BgStart(j))
              => FailureRecorded(j)
        /\ BgCopied(j, FALSE) => FailureRecorded(j)
        /\ \A detail \in SeparationDetails : BgSeparated(j, FALSE, detail) => FailureRecorded(j)
        /\ \A lyrics \in Lyrics : BgTranscribed(j, FALSE, lyrics) => FailureRecorded(j)

(* No response of a submission is an error of a job: the submitter gets 202
   with a job that is queued, processing or done. *)
C18_NotRaised ==
    \A url \in HttpUrls :
        LET response == process_from_url_response(url) IN
        /\ response.code = 202
        /\ response.status \in {"queued", "processing", "done"}
        /\ response.error = NoError

(* C18: every failing outcome of a reference job's task (acquisition error,
   audio above the size limit, missing credentials, failure of the copy, of
   separation, of transcription) leaves the job in state error with a
   non-empty message and no result, with no In-Flight Registry entry naming
   it, visible to a poll; a submission is never answered with an error. *)
C18_FailureRecording == [](C18_NotRaised) /\ [][C18_Step]_vars

(* Two jobs of one key have failed, one in acquisition and one in
   transcription, and the key is free. *)
C18_Witness ==
    \E j1 \in DOMAIN processing_jobs, j2 \in DOMAIN processing_jobs :
        /\ processing_jobs[j1].source_key = processing_jobs[j2].source_key
        /\ processing_jobs[j1].error = "Failed to download YouTube audio."
        /\ processing_jobs[j2].error = "Gradium transcription failed."
        /\ processing_jobs[j1].status = "error" /\ processing_jobs[j2].status = "error"
        /\ processing_jobs[j1].source_key \notin DOMAIN source_to_job

(* The submission of url joins no job *)
NoJoin(url) ==
    LET source_key == normalize_youtube_source(url) IN
    \/ source_key \notin DOMAIN source_to_job
    \/ source_to_job[source_key] \notin DOMAIN processing_jobs
    \/ processing_jobs[source_to_job[source_key]].status \notin {"queued", "processing", "done"}

C19_Step ==
    \A url \in HttpUrls :
        (NoJoin(url) /\ process_from_url(url)) =>
            LET response == process_from_url_response(url)
                source_key == normalize_youtube_source(url)
                job_id == response.job_id
            IN  /\ response.code = 202
                /\ response.status = "queued"
                /\ response.error = NoError /\ response.result = NoResult
                /\ job_id \notin DOMAIN processing_jobs
                /\ job_id \in DOMAIN processing_jobs'
                /\ processing_jobs'[job_id].status = "queued"
                /\ processing_jobs'[job_id].hist = <<"queued">>
                /\ processing_jobs'[job_id].source_key = source_key
                /\ source_to_job'[source_key] = job_id
                /\ bg'[job_id] = [pc |-> "created", data |-> NoData, work |-> NoJob]
                /\ UNCHANGED <<jobs, disk, cache, source_cache>>

(* A job is queued exactly as long as its task has not run its first step *)
C19_QueuedUntilStarted ==
    \A j \in DOMAIN processing_jobs :
        processing_jobs[j].status = "queued" <=> bg[j].pc = "created"

(* C19: a submission that joins no job is answered 202 with a fresh job in
   state queued which that same step has put in the Job Registry and the
   In-Flight Registry; its task exists and has not run (no acquisition, no
   directory, no stage), and a job is queued exactly until the first step of
   its task, which comes after the handler has returned. *)
C19_ImmediateReturn == [](C19_QueuedUntilStarted) /\ [][C19_Step]_vars

(* A job is queued and registered, its task has not started, while an inline
   run is in separation. *)
C19_Witness ==
    \E j \in DOMAIN processing_jobs, r \in Reqs :
        /\ processing_jobs[j].status = "queued"
        /\ bg[j].pc = "created"
        /\ source_to_job[processing_jobs[j].source_key] = j
        /\ get_job_response(j).status = "queued"
        /\ inl[r].pc = "separate"

(* The step answers the inline request r with an error and stores nothing *)
InlineFailed(r) ==
    /\ inl'[r].pc = "err"
    /\ inl'[r].code = 500
    /\ inl'[r].ret = NoResult
    /\ UNCHANGED <<jobs, cache>>

(* The inline requests whose run failed in a stage *)
FailedRuns == {r \in Reqs : inl[r].pc = "err" /\ inl[r].work # NoJob}

C20_Step ==
    \A r \in Reqs :
        /\ InlineSeparated(r, FALSE) => InlineFailed(r)
        /\ \A lyrics \in Lyrics : InlineTranscribed(r, FALSE, lyrics) => InlineFailed(r)
        /\ inl[r].pc = "err" => inl'[r] = inl[r]
        /\ \A r2 \in Reqs :
              (/\ r \in FailedRuns
               /\ inl[r2].pc = "read" /\ inl[r2].data = inl[r].data
               /\ ~ValidEntry(sha256(inl[r].data))
               /\ InlineRead(r2))
                 => /\ inl'[r2].pc = "separate"
                    /\ inl'[r2].work \notin {inl[r].work} \cup DOMAIN jobs

C20_NothingStored ==
    \A r \in FailedRuns :
        /\ inl[r].work \notin DOMAIN jobs
        /\ \A file_hash \in DOMAIN cache : cache[file_hash].job_id # inl[r].work

(* C20: a failure of separation or of transcription answers the inline request
   with a 500, the request takes no further step (no transcription after a
   failed separation, no retry), its job_id never enters the Artifact Store or
   the Result Cache, and a later submission of the same bytes that finds no
   valid entry of another run starts a run of its own. *)
C20_InlineFailure == [](C20_NothingStored) /\ [][C20_Step]_vars

(* The first run failed in a stage; the second submission of the same bytes
   ran the pipeline and was answered with its own job. *)
C20_Witness ==
    /\ 1 \in FailedRuns
    /\ inl[2].pc = "ok" /\ inl[2].data = inl[1].data
    /\ inl[2].work \notin {NoJob, inl[1].work}
    /\ inl[2].ret.job_id = inl[2].work

(* The fingerprints the step writes an entry for *)
Published ==
    {h \in DOMAIN cache' : h \notin DOMAIN cache \/ cache'[h] # cache[h]}

(* The step in which a pipeline run ends with success *)
InlineRunEnds(r) == inl[r].pc = "transcribe" /\ inl'[r].pc = "ok"

UrlRunEnds(j) ==
    /\ j \in DOMAIN bg /\ bg[j].pc = "transcribe"
    /\ bg'[j].pc = "finished" /\ processing_jobs'[j].status = "done"

(* The entry of file_hash names the stored job of the working directory work *)
PublishedFor(file_hash, work) ==
    /\ Published = {file_hash}
    /\ cache'[file_hash].job_id = work
    /\ cache'[file_hash].response.job_id = work
    /\ work \in DOMAIN jobs'
    /\ OutputNames \subseteq disk'[work].files

(* C21: a step writes a Result Cache entry only if it is the step in which a
   pipeline run ends with success, and that step writes exactly the entry of
   the run's fingerprint, naming the run's job, which is then in the Artifact
   Store with both output files; a step that serves a cache hit and a step in
   which a run fails write no entry. *)
C21_PublishDiscipline ==
    [][/\ \A r \in Reqs :
            /\ InlineRunEnds(r) => PublishedFor(sha256(inl[r].data), inl[r].work)
            /\ (ServedInline(r) \/ (inl[r].pc # "err" /\ inl'[r].pc = "err")) => Published = {}
       /\ \A j \in Ids :
            /\ UrlRunEnds(j) => PublishedFor(sha256(bg[j].data), bg[j].work)
            /\ ServedUrl(j) => Published = {}
            /\ (j \in DOMAIN bg /\ bg[j].pc # "finished" /\ bg'[j].pc = "finished"
                   /\ processing_jobs'[j].status = "error") => Published = {}
       /\ Published # {} =>
            \/ \E r \in Reqs : InlineRunEnds(r)
            \/ \E j \in Ids : UrlRunEnds(j)]_vars

(* An inline run and the run of a reference job have each published the
   entry of their own stored job. *)
C21_Witness ==
    \E r \in Reqs, j \in DOMAIN bg :
        /\ inl[r].pc = "ok" /\ inl[r].work # NoJob
        /\ cache[sha256(inl[r].data)].job_id = inl[r].work
        /\ processing_jobs[j].status = "done" /\ bg[j].work # NoJob
        /\ cache[sha256(bg[j].data)].job_id = bg[j].work
        /\ {inl[r].work, bg[j].work} \subseteq DOMAIN jobs


----------------------------------------------------------------------------
(* C22: an inline submission whose pipeline run succeeded is in the Job
   Registry when it returns: get_job with the job_id of the returned result
   answers with that job, in status done and with that result, never with
   404. *)
C22_InlineJobsPollable ==
    \A r \in Reqs :
        (inl[r].pc = "ok" /\ inl[r].work # NoJob) =>
            /\ get_job_response(inl[r].ret.job_id).code = 200
            /\ get_job_response(inl[r].ret.job_id).status = "done"
            /\ get_job_response(inl[r].ret.job_id).result = inl[r].ret

----------------------------------------------------------------------------
(* The step in which the task of job j ends *)
TaskEnds(j) == j \in DOMAIN bg /\ bg[j].pc # "finished" /\ bg'[j].pc = "finished"

(* The registry still maps the key of job j to j *)
StillRegistered(j) ==
    /\ processing_jobs[j].source_key \in DOMAIN source_to_job
    /\ source_to_job[processing_jobs[j].source_key] = j

C23_Step ==
    \A j \in Ids :
        TaskEnds(j) =>
            IF processing_jobs'[j].status = "error" /\ StillRegistered(j)
            THEN source_to_job' = Pop(source_to_job, processing_jobs[j].source_key)
            ELSE source_to_job' = source_to_job

(* While the task of a job has not ended, the registry maps its key to it *)
C23_RegisteredWhileRunning ==
    \A j \in DOMAIN bg : bg[j].pc # "finished" => StillRegistered(j)

(* C23: when the task of a reference job ends in error, the entry of its
   source key is removed from source_to_job if and only if the registry still
   maps that key to this job; an entry that maps the key to another job, and
   the entry of a job that ended done, are left unchanged. *)
C23_GuardedRelease == [](C23_RegisteredWhileRunning) /\ [][C23_Step]_vars

(* A job failed and its key was released: the key is free, or a later
   submission registered a newer job for it. *)
C23_Witness ==
    \E j \in DOMAIN processing_jobs :
        /\ processing_jobs[j].status = "error"
        /\ bg[j].pc = "finished"
        /\ ~StillRegistered(j)
        /\ \E n \in DOMAIN processing_jobs :
              /\ n # j /\ processing_jobs[n].source_key = processing_jobs[j].source_key
              /\ StillRegistered(n)

----------------------------------------------------------------------------
(* C24: for each source key at most one job is queued or processing, and that
   job is the one source_to_job registers for the key; this holds as well
   after jobs of the key have failed and the key was submitted again. *)
C24_NoDuplicateRunningJob ==
    \A k \in Keys :
        \A i \in RunningJobs(k), j \in RunningJobs(k) :
            /\ i = j
            /\ k \in DOMAIN source_to_job /\ source_to_job[k] = j

(* A job of a key failed, the key was submitted again, and the retry is the
   only running job of the key. *)
C24_Witness ==
    \E k \in Keys :
        /\ \E j \in JobsOf(k) : processing_jobs[j].status = "error"
        /\ \E j \in JobsOf(k) : processing_jobs[j].status = "processing" /\ bg[j].pc = "separate"

----------------------------------------------------------------------------
(* The step is one of the task of job j, and of nothing else *)
TaskStep(j) ==
    /\ j \in DOMAIN bg /\ bg'[j] # bg[j]
    /\ \A i \in DOMAIN bg \ {j} : bg'[i] = bg[i]
    /\ inl' = inl /\ now' = now

(* The record of job j is as it was *)
RecordKept(j) ==
    /\ j \in DOMAIN processing_jobs'
    /\ processing_jobs'[j].status = processing_jobs[j].status
    /\ processing_jobs'[j].result = processing_jobs[j].result
    /\ processing_jobs'[j].error = processing_jobs[j].error

C25_Step ==
    /\ \A j \in DOMAIN processing_jobs : RecordKept(j) \/ TaskStep(j)
    /\ (DOMAIN processing_jobs' # DOMAIN processing_jobs \/ source_to_job' # source_to_job) =>
          \A j \in DOMAIN processing_jobs :
              RecordKept(j) \/ (TaskStep(j) /\ processing_jobs'[j].status = "error")

(* C25: the status, result and error of a job in processing_jobs change only
   in steps of the background task of that job; process_from_url for any key,
   get_job, the steps of process_audio, cache lookups of other runs, the
   sweeper and the clock leave every existing record's status, result and
   error as they were. *)
C25_SingleWriter == [][C25_Step]_vars

(* A job ended done with the result an inline request was answered with,
   and the artifacts of that result were swept: the task, process_audio, the
   cache lookup, the clock and the sweeper have all acted. *)
C25_Witness ==
    \E j \in DOMAIN processing_jobs, r \in Reqs :
        /\ processing_jobs[j].status = "done"
        /\ processing_jobs[j].result.job_id \notin DOMAIN jobs
        /\ inl[r].pc = "ok" /\ inl[r].ret = processing_jobs[j].result
        /\ now > 0

----------------------------------------------------------------------------
(* The identifiers get_job may be asked for that no submission was given *)
NeverIssued == (Ids \cup {UnknownId}) \ DOMAIN processing_jobs

C26_Found ==
    \A j \in DOMAIN processing_jobs :
        /\ get_job_response(j).code = 200
        /\ get_job_response(j).job_id = j
        /\ get_job_response(j).status = processing_jobs[j].status

C26_NotFound ==
    \A job_id \in NeverIssued : get_job_response(job_id).code = 404

C26_Step ==
    /\ DOMAIN processing_jobs \subseteq DOMAIN processing_jobs'
    /\ \A job_id \in NeverIssued : get_job(job_id) => UNCHANGED vars

(* C26: a job_id process_from_url returned stays in processing_jobs; get_job
   for it answers 200 with the job, also after the artifacts of its result
   were removed from the Artifact Store; get_job for an identifier no
   submission was given answers 404 and changes nothing. *)
C26_JobRecordsOutliveArtifacts ==
    [](C26_Found) /\ [](C26_NotFound) /\ [][C26_Step]_vars

(* A finished job whose artifacts were evicted is still found by get_job,
   while an identifier that was never issued is not. *)
C26_Witness ==
    \E j \in DOMAIN processing_jobs :
        /\ processing_jobs[j].status = "done"
        /\ processing_jobs[j].result.job_id \notin DOMAIN jobs
        /\ ~disk[processing_jobs[j].result.job_id].dir
        /\ get_job_response(j).code = 200
        /\ get_job_response(UnknownId).code = 404

----------------------------------------------------------------------------
(* The stored job j was created or last served at time t, early enough for
   the clock of the model to pass its time-to-live *)
StoredAt(j, t) ==
    /\ j \in DOMAIN jobs /\ jobs[j].created_at = t
    /\ t + job_ttl_seconds < MaxTime

(* The stored job j was served from the cache after time t *)
ServedAfter(j, t) == j \in DOMAIN jobs /\ jobs[j].created_at > t

(* C27 as stated: under a fair sweeper every non-demo entry of the Artifact
   Store that gets no further valid cache hit is eventually out of the store
   and its directory deleted. *)
C27_RemovedWithDirectory ==
    \A j \in Ids, t \in Times :
        StoredAt(j, t) ~> ((j \notin DOMAIN jobs /\ ~disk[j].dir) \/ ServedAfter(j, t))

C27_Eventually ==
    \A j \in Ids, t \in Times :
        StoredAt(j, t) ~> (j \notin DOMAIN jobs \/ ServedAfter(j, t))

C27_BestEffort ==
    \A j \in DOMAIN jobs \ DOMAIN jobs' : disk'[j] = NoDir \/ disk'[j] = disk[j]

(* C27, amended: under a fair sweeper every non-demo entry of the Artifact
   Store that gets no further valid cache hit is eventually removed from the
   store; in the step that removes it its directory is deleted, or, when the
   deletion fails, left as it was. *)
C27_BoundedLifetime == C27_Eventually /\ [][C27_BestEffort]_vars

(* The job of an inline run outlived its time-to-live and was removed from
   the store, and its directory with the outputs is still on disk. *)
C27_Witness ==
    \E r \in Reqs :
        /\ inl[r].pc = "ok" /\ inl[r].work # NoJob
        /\ inl[r].work \notin DOMAIN jobs
        /\ disk[inl[r].work].dir /\ OutputNames \subseteq disk[inl[r].work].files
        /\ now = MaxTime

----------------------------------------------------------------------------
(* The working directories of the pipeline runs that have not ended *)
InFlight ==
    {inl[r].work : r \in {x \in Reqs : inl[x].pc \in {"separate", "transcribe"}}}
    \cup {bg[j].work : j \in {x \in DOMAIN bg : bg[x].pc \in {"copy", "separate", "transcribe"}}}

C28_NotStored ==
    \A w \in InFlight : w \notin DOMAIN jobs /\ disk[w].dir

C28_Step ==
    /\ \A w \in InFlight : disk'[w].dir /\ disk[w].files \subseteq disk'[w].files
    /\ \A w \in Ids :
          (disk[w].dir /\ ~disk'[w].dir) =>
              /\ w \in DOMAIN jobs /\ w \notin DOMAIN jobs'
              /\ Age(w) > job_ttl_seconds

(* C28: the working directory of a pipeline run that has not ended is not in
   the Artifact Store, and no step (sweeper pass, request-path cleanup or any
   other) deletes it or a file in it, however long the run lasts; a directory
   is deleted only for a job that is in the store and older than the
   time-to-live. *)
C28_InFlightNotDisrupted == [](C28_NotStored) /\ [][C28_Step]_vars

(* A run is still in its stages while a run that started after it has ended,
   outlived the time-to-live and was swept, directory included. *)
C28_Witness ==
    \E r1 \in Reqs, r2 \in Reqs :
        /\ inl[r1].pc = "transcribe"
        /\ inl[r2].pc = "ok" /\ inl[r2].work > inl[r1].work
        /\ inl[r2].work \notin DOMAIN jobs /\ disk[inl[r2].work] = NoDir
        /\ inl[r1].work \in InFlight
        /\ OutputNames \subseteq disk[inl[r1].work].files

----------------------------------------------------------------------------
(* The inline requests answered with a result whose job is stored *)
Answered == {r \in Reqs : inl[r].pc = "ok" /\ inl[r].ret.job_id \in DOMAIN jobs}

C29_Served ==
    \A r \in Answered, filename \in OutputNames :
        LET response == get_file_response(inl[r].ret.job_id, filename) IN
        /\ response.code = 200
        /\ response.job_id = inl[r].ret.job_id
        /\ response.file = filename

(* the directory of a job is as it was for as long as the job is stored *)
C29_Content ==
    \A j \in DOMAIN jobs \cap DOMAIN jobs' : disk'[j] = disk[j]

(* C29: once a successful inline submission has returned and for as long as
   the job of its result is in the Artifact Store, get_file with that job_id
   answers 200 for vocals.wav and for instrumental.wav, with the file of that
   name in that job's directory, which no step has changed since the job was
   stored. *)
C29_ArtifactsServed == [](C29_Served) /\ [][C29_Content]_vars

(* The run of an inline submission has returned, time has passed since its
   job was stored, and both outputs are served. *)
C29_Witness ==
    \E r \in Answered :
        /\ inl[r].work # NoJob /\ inl[r].ret.job_id = inl[r].work
        /\ now > jobs[inl[r].work].created_at
        /\ \A filename \in OutputNames :
              get_file_response(inl[r].work, filename).code = 200

----------------------------------------------------------------------------
(* The uploads the handler can refuse before it reads the body *)
RefusedUnread ==
    {file \in Uploads : \/ file.extension \notin ALLOWED_EXTENSIONS
                        \/ file.content_type # ALLOWED_MIME_PREFIX
                        \/ (file.size_known /\ file.big)}

(* The requests whose body, once read, is above upload_max_mb *)
Oversize == {r \in Reqs : inl[r].pc # "idle" /\ inl[r].big}

C30_Refused ==
    /\ \A file \in RefusedUnread : _validate_upload(file) = 400
    /\ \A r \in Oversize :
          /\ inl[r].pc \in {"read", "err"}
          /\ inl[r].pc = "err" => inl[r].code = 400
          /\ inl[r].work = NoJob /\ inl[r].ret = NoResult

C30_Step ==
    /\ \A r \in Reqs, file \in RefusedUnread, kept \in Removals :
          InlineStart(r, file, kept) => UNCHANGED vars
    /\ \A r \in Oversize :
          inl'[r] # inl[r] =>
              /\ inl'[r].pc = "err" /\ inl'[r].code = 400
              /\ UNCHANGED <<jobs, disk, cache, processing_jobs, source_to_job, nextId, bg>>

(* C30: process_audio answers 400 to an upload whose extension is not .mp3 or
   .wav, whose content type is not audio, or whose size is above
   upload_max_mb (found in the declared size or after the body was read); the
   request makes no working directory, runs no stage, stores no job and
   writes no cache entry. *)
C30_RequestValidation == [](C30_Refused) /\ [][C30_Step]_vars

(* An upload of undeclared size was found too large after the read and was
   answered 400; no identifier has been drawn and nothing was stored for it. *)
C30_Witness ==
    \E r \in Oversize :
        /\ inl[r].pc = "err" /\ inl[r].code = 400
        /\ nextId = 1
        /\ DOMAIN jobs \subseteq {DEMO_JOB_ID}
        /\ \A h \in DOMAIN cache : cache[h].job_id = DEMO_JOB_ID

----------------------------------------------------------------------------
VideoIds == {"a", "b"}

(* The four link shapes that carry the video id *)
Shapes(id) ==
    { Url("https", "youtu.be", <<id>>, "", "https://youtu.be/" \o id),
      Url("https", "www.youtube.com", <<"watch">>, id,
          "https://www.youtube.com/watch?v=" \o id),
      Url("https", "youtube.com", <<"shorts", id>>, "",
          "https://youtube.com/shorts/" \o id),
      Url("http", "m.youtube.com", <<"embed", id>>, "",
          "http://m.youtube.com/embed/" \o id) }

(* References no video id is found in: other hosts, other paths, an empty id *)
Unrecognised ==
    { Url("https", "example.com", <<"x">>, "", "https://example.com/x"),
      Url("https", "example.com", <<"watch">>, "a", "https://example.com/watch?v=a"),
      Url("https", "www.youtube.com", <<"playlist">>, "", "https://www.youtube.com/playlist"),
      Url("https", "www.youtube.com", <<"watch">>, "", "https://www.youtube.com/watch"),
      Url("https", "youtu.be", <<>>, "", "https://youtu.be/"),
      Url("ftp", "example.com", <<"x">>, "", "ftp://example.com/x") }

References == Unrecognised \cup UNION {Shapes(id) : id \in VideoIds}

(* C31: the four link shapes of one video id all get the key youtube:<id>, a
   reference in which no video id is found gets the key url:<reference>, and
   two references get one key only if they are shapes of one video id or the
   same reference; the references the handler is given are among them. *)
C31_SourceNormalization ==
    /\ Urls \subseteq References
    /\ \A id \in VideoIds : \A url \in Shapes(id) :
          normalize_youtube_source(url) = "youtube:" \o id
    /\ \A url \in Unrecognised : normalize_youtube_source(url) = "url:" \o url.raw
    /\ \A u1 \in References, u2 \in References :
          normalize_youtube_source(u1) = normalize_youtube_source(u2) =>
              \/ u1.raw = u2.raw
              \/ \E id \in VideoIds : {u1, u2} \subseteq Shapes(id)
    /\ \A k \in DOMAIN source_to_job : k \in {normalize_youtube_source(u) : u \in References}

(* A recognised and an unrecognised reference have been submitted: both keys
   are registered, and the two link shapes of the video find the one job. *)
C31_Witness ==
    /\ {"youtube:a", "url:https://example.com/x"} \subseteq DOMAIN source_to_job
    /\ \A url \in HttpUrls \cap Shapes("a") :
          process_from_url_response(url).job_id = source_to_job["youtube:a"]
    /\ Cardinality(HttpUrls \cap Shapes("a")) = 2

----------------------------------------------------------------------------
(* main.py:82-90: the attributes lifespan() sets on app.state before the
   application serves its first request *)
lifespan_state ==
    {"settings", "jobs", "background_jobs", "cache", "demo_job_id", "demo_response"}

(* The attributes of app.state a handler reads, by operation: process_from_url
   (routes.py:266-267) and its task (routes.py:186, 191, 218), get_job
   (routes.py:287), process_audio (routes.py:232, 75, 92-93) *)
StateRead(op) ==
    CASE op = "url"    -> {"source_to_job", "processing_jobs"}
      [] op = "task"   -> {"processing_jobs", "settings", "source_cache", "source_to_job"}
      [] op = "poll"   -> {"processing_jobs"}
      [] op = "inline" -> {"settings", "jobs", "cache"}

(* The answer to the first request: a handler that reads an attribute
   start-up has not set ends in AttributeError, which is a 500 *)
FirstResponse(op) ==
    IF ~(StateRead(op) \subseteq lifespan_state) THEN HttpError(op, 500)
    ELSE IF op = "poll" THEN get_job_response(UnknownId)
    ELSE IF op = "url" THEN process_from_url_response(Url("https", "youtu.be", <<"a">>, "", "https://youtu.be/a"))
    ELSE NoHttp

(* No request has been served yet *)
JustStarted ==
    /\ up /\ now = 0 /\ nextId = 1
    /\ \A r \in Reqs : inl[r].pc = "idle"

(* C32: when the process starts serving, the Job Registry, the Result Cache,
   the In-Flight Registry and the Artifact Store exist and hold nothing but
   at most the demo entry, and a process_from_url or a get_job that comes
   first is answered from the empty registries: 202 with a queued job, 404
   for the unknown job. *)
C32_StartupState ==
    JustStarted =>
        /\ {"processing_jobs", "cache", "source_to_job", "jobs"} \subseteq lifespan_state
        /\ processing_jobs = EmptyDict /\ source_to_job = EmptyDict
        /\ DOMAIN jobs \subseteq {DEMO_JOB_ID}
        /\ \A h \in DOMAIN cache : cache[h].job_id = DEMO_JOB_ID
        /\ FirstResponse("url").code = 202 /\ FirstResponse("url").status = "queued"
        /\ FirstResponse("poll").code = 404

----------------------------------------------------------------------------
(* The order of the positions of a request and of a task *)
InlineOrder ==
    { <<"idle", "read">>, <<"read", "ok">>, <<"read", "err">>, <<"read", "separate">>,
      <<"separate", "transcribe">>, <<"separate", "err">>,
      <<"transcribe", "ok">>, <<"transcribe", "err">> }

TaskOrder ==
    { <<"created", "download">>, <<"created", "copy">>, <<"created", "finished">>,
      <<"download", "copy">>, <<"download", "finished">>,
      <<"copy", "separate">>, <<"copy", "finished">>,
      <<"separate", "transcribe">>, <<"separate", "finished">>,
      <<"transcribe", "finished">> }

(* What holds of a run at position pc with the bytes data in the directory work *)
StageState(pc, data, work) ==
    /\ pc \in {"idle", "created", "download"} => data = NoData /\ work = NoJob
    /\ pc \in {"copy", "separate"} =>
          /\ data # NoData /\ work # NoJob /\ disk[work].dir
          /\ disk[work].files \cap OutputNames = {}
          /\ work \notin DOMAIN jobs
    /\ pc = "transcribe" =>
          /\ data # NoData /\ work # NoJob
          /\ OutputNames \subseteq disk[work].files
          /\ work \notin DOMAIN jobs

C33_Stages ==
    /\ \A r \in Reqs : StageState(inl[r].pc, inl[r].data, inl[r].work)
    /\ \A j \in DOMAIN bg : StageState(bg[j].pc, bg[j].data, bg[j].work)

(* The step starts a run on the bytes data: the lookup of their fingerprint
   was a miss, and a fresh directory is made *)
RunStarts(data, work) ==
    /\ data # NoData
    /\ ~ValidEntry(sha256(data))
    /\ work = nextId /\ ~disk[work].dir /\ disk'[work].dir

C33_Step ==
    /\ \A r \in Reqs :
          /\ inl'[r].pc # inl[r].pc => <<inl[r].pc, inl'[r].pc>> \in InlineOrder
          /\ (inl[r].pc # "separate" /\ inl'[r].pc = "separate") =>
                RunStarts(inl'[r].data, inl'[r].work)
    /\ \A j \in DOMAIN bg :
          /\ bg'[j].pc # bg[j].pc => <<bg[j].pc, bg'[j].pc>> \in TaskOrder
          /\ (bg[j].pc \in {"created", "download"} /\ bg'[j].pc = "copy") =>
                /\ RunStarts(bg'[j].data, bg'[j].work)
                /\ processing_jobs[j].source_key \in DOMAIN source_cache'
    /\ \A w \in DOMAIN jobs' \ DOMAIN jobs :
          \/ \E r \in Reqs : inl[r].work = w /\ inl[r].pc = "transcribe" /\ inl'[r].pc = "ok"
          \/ \E j \in DOMAIN bg :
                /\ bg[j].work = w /\ bg[j].pc = "transcribe"
                /\ processing_jobs'[j].status = "done"

(* C33: in one pipeline run the bytes are acquired before their fingerprint
   is looked up, separation starts only after a miss of that lookup,
   transcription only once separation has written its outputs, and the job is
   entered in the Artifact Store only in the step in which transcription has
   succeeded. *)
C33_StageOrder == [](C33_Stages) /\ [][C33_Step]_vars

(* A reference job downloaded its source, missed the cache and separated;
   it is transcribing and its job is not stored yet. *)
C33_Witness ==
    \E j \in DOMAIN bg :
        /\ bg[j].pc = "transcribe"
        /\ processing_jobs[j].source_key \in DOMAIN source_cache
        /\ source_cache[processing_jobs[j].source_key].data = bg[j].data
        /\ OutputNames \subseteq disk[bg[j].work].files
        /\ bg[j].work \notin DOMAIN jobs

----------------------------------------------------------------------------
(* A step of the sweeper that removed something: no request, task or clock
   has moved *)
SweepStep ==
    /\ inl' = inl /\ bg' = bg /\ now' = now /\ processing_jobs' = processing_jobs
    /\ (jobs' # jobs \/ disk' # disk)

(* The stored jobs a pass at this time has to remove *)
Due == {j \in DOMAIN jobs : Age(j) > job_ttl_seconds /\ j # DEMO_JOB_ID}

C34_Step ==
    /\ SweepStep =>
          /\ DOMAIN jobs' = DOMAIN jobs \ Due
          /\ \A j \in Due : disk'[j] = NoDir \/ disk'[j] = disk[j]
    /\ \A kept \in SUBSET Due :
          _cleanup_loop(kept) =>
              /\ DOMAIN jobs' = DOMAIN jobs \ Due
              /\ \A j \in Due \ kept : disk'[j] = NoDir
              /\ \A j \in kept : disk'[j] = disk[j]
              /\ up'

(* C34: in a pass of the sweeper the entry of every expired job leaves the
   Artifact Store, also the entry of a job whose directory could not be
   deleted; the failure leaves that directory as it was, the directories of
   the other expired jobs are deleted in the same pass, and the sweeper goes
   on running. *)
C34_BestEffortDeletion == [][C34_Step]_vars

(* Two jobs expired; the deletion failed for one and succeeded for the
   other, and both entries are out of the store. *)
C34_Witness ==
    \E j1 \in Ids, j2 \in Ids :
        /\ j1 # j2 /\ {j1, j2} \cap DOMAIN jobs = {}
        /\ disk[j1].dir /\ OutputNames \subseteq disk[j1].files
        /\ disk[j2] = NoDir
        /\ \E r \in Reqs : inl[r].pc = "ok" /\ inl[r].work = j1
        /\ \E r \in Reqs : inl[r].pc = "ok" /\ inl[r].work = j2
        /\ up

----------------------------------------------------------------------------
(* The step in which the reference job j fails, and the one in which the run
   of the inline request r fails *)
JobFails(j) == TaskEnds(j) /\ processing_jobs'[j].status = "error"

RequestFails(r) == inl[r].pc # "err" /\ inl'[r].pc = "err" /\ inl'[r].code = 500

(* The step leaves the records of the jobs other than j, the registry entries
   of the keys other than that of j, and the Artifact Store as they were;
   `stale_removed` allows the lookup of the failing run to have removed a
   cache entry that was not valid. *)
Isolated(j, stale_removed) ==
    /\ \A i \in DOMAIN processing_jobs \ {j} :
          i \in DOMAIN processing_jobs' /\ processing_jobs'[i] = processing_jobs[i]
    /\ \A k \in DOMAIN source_to_job :
          (j = NoJob \/ k # processing_jobs[j].source_key) =>
              k \in DOMAIN source_to_job' /\ source_to_job'[k] = source_to_job[k]
    /\ DOMAIN source_to_job' \subseteq DOMAIN source_to_job
    /\ jobs' = jobs
    /\ \A w \in DOMAIN jobs : disk'[w] = disk[w]
    /\ DOMAIN cache' \subseteq DOMAIN cache
    /\ \A h \in DOMAIN cache' : cache'[h] = cache[h]
    /\ IF stale_removed
       THEN \A h \in DOMAIN cache \ DOMAIN cache' : ~ValidEntry(h)
       ELSE cache' = cache

C35_StepAsStated ==
    /\ \A j \in Ids : JobFails(j) => Isolated(j, FALSE)
    /\ \A r \in Reqs : RequestFails(r) => Isolated(NoJob, FALSE)

C35_Step ==
    /\ \A j \in Ids : JobFails(j) => Isolated(j, TRUE)
    /\ \A r \in Reqs : RequestFails(r) => Isolated(NoJob, TRUE)

(* A job or a request has failed *)
SomeFailure ==
    \/ \E j \in DOMAIN processing_jobs : processing_jobs[j].status = "error"
    \/ \E r \in Reqs : inl[r].pc = "err" /\ inl[r].code = 500

C35_StillServed ==
    /\ \A j \in Ids :
          (SomeFailure /\ j \in DOMAIN processing_jobs)
              ~> (j \in DOMAIN processing_jobs /\ processing_jobs[j].status \in Terminal)
    /\ \A r \in Reqs :
          (SomeFailure /\ inl[r].pc # "idle") ~> (inl[r].pc \in {"ok", "err"})

(* C35 as stated: the failure of a job changes no other job's record, no
   registry entry of another key, no Result Cache entry and no Artifact Store
   entry, and what is submitted afterwards reaches a terminal state. *)
C35_FailureChangesNothing == [][C35_StepAsStated]_vars /\ C35_StillServed

(* C35, amended: the failure of a job changes no other job's record, no
   registry entry of another key, no valid Result Cache entry and no Artifact
   Store entry (an entry that was not valid may have been removed by the
   lookup of the failing run), and what is submitted afterwards reaches a
   terminal state. *)
C35_FailureIsolation == [][C35_Step]_vars /\ C35_StillServed

(* A reference job has failed while the job of another key stays registered
   and done, and an inline request submitted meanwhile was answered. *)
C35_Witness ==
    \E j1 \in DOMAIN processing_jobs, j2 \in DOMAIN processing_jobs :
        /\ processing_jobs[j1].status = "error"
        /\ processing_jobs[j2].status = "done"
        /\ processing_jobs[j1].source_key # processing_jobs[j2].source_key
        /\ StillRegistered(j2)
        /\ \E r \in Reqs : inl[r].pc = "ok"

----------------------------------------------------------------------------
(* The identifiers a client can ask get_file for *)
Asked == Ids \cup {UnknownId}

(* get_file answers 404 for a job that is not in the store, and otherwise
   200 with the named file of that very job, which its directory holds, or
   404. *)
C36_Answer ==
    \A job_id \in Asked, filename \in FileNames :
        LET response == get_file_response(job_id, filename) IN
        /\ response.code \in {200, 404}
        /\ job_id \notin DOMAIN jobs => response.code = 404
        /\ response.code = 200 =>
              /\ response.job_id = job_id /\ response.file = filename
              /\ job_id \in DOMAIN jobs /\ filename \in disk[job_id].files

(* get_file runs without waiting, so a sweep comes before it or after it: in
   the state a removal leaves, the answer for the removed job is 404, and for
   a job that stays stored it is what it was *)
C36_Race ==
    /\ \A job_id \in DOMAIN jobs \ DOMAIN jobs', filename \in FileNames :
          get_file_response(job_id, filename)'.code = 404
    /\ \A job_id \in DOMAIN jobs \cap DOMAIN jobs', filename \in FileNames :
          get_file_response(job_id, filename)' = get_file_response(job_id, filename)

(* C36: get_file for a job whose Artifact Store entry has been removed, or
   for a job_id that was never stored, answers 404; at any point of a sweep's
   interleaving it answers either the file of that name of that job or 404,
   never the file of another job. *)
C36_FetchAfterEviction == [](C36_Answer) /\ [][C36_Race]_vars

(* A stored job's output was served, its entry has been removed while its
   directory stayed, and the directory of a run that is not stored holds an
   output too: both are answered 404, next to a stored job that is served. *)
C36_Witness ==
    \E j1 \in Ids, j2 \in Ids, j3 \in DOMAIN jobs :
        /\ j1 \notin DOMAIN jobs /\ j2 \notin DOMAIN jobs /\ j1 # j2
        /\ \E r \in Reqs : inl[r].pc = "ok" /\ inl[r].work = j1
        /\ "vocals.wav" \in disk[j1].files
        /\ get_file_response(j1, "vocals.wav").code = 404
        /\ \E r \in Reqs : inl[r].pc \in {"transcribe", "err"} /\ inl[r].work = j2
        /\ "vocals.wav" \in disk[j2].files
        /\ get_file_response(j2, "vocals.wav").code = 404
        /\ get_file_response(j3, "vocals.wav").code = 200

----------------------------------------------------------------------------
(* The reference jobs whose own run went through the stages *)
RanPipeline == {job_id \in DOMAIN bg : bg[job_id].work # NoJob}

(* C37: for every reference job in state done (here: one that ran the
   pipeline itself, so that the result is its own), the job_id inside its
   result, under which its artifacts are stored, is the job_id
   process_from_url returned and get_job is asked with. *)
C37_OneIdentifier ==
    \A job_id \in DOMAIN processing_jobs \cap RanPipeline :
        processing_jobs[job_id].status = "done" =>
            /\ processing_jobs[job_id].result.job_id = job_id
            /\ get_job_response(job_id).result.job_id = job_id

----------------------------------------------------------------------------
(* The working directories mkdtemp has created for pipeline runs *)
Created ==
    {inl[r].work : r \in {x \in Reqs : inl[x].work # NoJob}}
    \cup {bg[j].work : j \in {x \in DOMAIN bg : bg[x].work # NoJob}}

(* The working directories of the runs that failed in a stage *)
Abandoned ==
    {inl[r].work : r \in FailedRuns}
    \cup {bg[j].work : j \in {x \in DOMAIN bg : /\ bg[x].work # NoJob
                                                /\ processing_jobs[x].status = "error"}}

(* C38: every working directory created for a pipeline run is eventually
   either in the Artifact Store or deleted, and a run that has failed in
   separation or transcription leaves no directory the Artifact Store does
   not know. *)
C38_NoLeakedWorkingArea ==
    /\ \A w \in Ids : (w \in Created) ~> (w \in DOMAIN jobs \/ ~disk[w].dir)
    /\ [](\A w \in Abandoned : w \in DOMAIN jobs \/ ~disk[w].dir)

----------------------------------------------------------------------------
(* The step in which process_audio admits the request r: its cleanup has run *)
RequestCleanup(r) == inl[r].pc = "idle" /\ inl'[r].pc = "read"

(* The store and the directories a cleanup leaves, at this time, when the
   deletion fails for the jobs of `kept` *)
AfterCleanup(kept) ==
    [jobs |-> [j \in DOMAIN jobs \ Due |-> jobs[j]],
     disk |-> [j \in DOMAIN disk |->
                  IF j \in Due /\ j \notin kept /\ disk[j].dir THEN NoDir ELSE disk[j]]]

C39_Step ==
    /\ \A r \in Reqs :
          RequestCleanup(r) =>
              /\ DOMAIN jobs \ DOMAIN jobs' = Due
              /\ \E kept \in SUBSET Due :
                    [jobs |-> jobs', disk |-> disk'] = AfterCleanup(kept)
    /\ \A kept \in Removals :
          _cleanup_loop(kept) =>
              /\ DOMAIN jobs \ DOMAIN jobs' = Due
              /\ [jobs |-> jobs', disk |-> disk'] = AfterCleanup(kept)

(* C39: from any Artifact Store state and at any time, the cleanup at the
   start of an inline submission and one pass of the sweeper remove the same
   entries: the non-demo jobs whose age is above the time-to-live, the entry
   also when its directory is not deleted, and they leave the same store. *)
C39_CleanupEquivalence == [][C39_Step]_vars

(* A request has just been admitted, after its cleanup: the job of an earlier
   answered request is out of the store, nothing in the store is due, and the
   demo entry, older than the time-to-live, is still stored. *)
C39_Witness ==
    \E r1 \in Reqs, r2 \in Reqs :
        /\ inl[r1].pc = "ok" /\ inl[r1].work # NoJob
        /\ inl[r1].work \notin DOMAIN jobs
        /\ inl[r2].pc = "read"
        /\ Due = {}
        /\ DEMO_JOB_ID \in DOMAIN jobs /\ Age(DEMO_JOB_ID) > job_ttl_seconds

===========================================================================
